---- MODULE Spec2Model ----
(***************************************************************************)
(* OpenMindsBackend (MCQ platform API): the stateless authentication /     *)
(* authorization layer (password check, JWT issue and verify, role-gated   *)
(* routes) and the test-submission scoring engine (payload normalisation,  *)
(* grading, Result recording), modelled handler by handler.                *)
(*                                                                         *)
(* Conventions.  Scores are the Float column values; only whole numbers    *)
(* are drawn, on which float addition is exact.  Time is counted in whole  *)
(* minutes, the unit of ACCESS_TOKEN_EXPIRE_MINUTES (the JWT exp claim is  *)
(* a whole number of seconds, so a whole-unit clock loses nothing the      *)
(* expiry comparison can see).  Every handler is one atomic action that    *)
(* leaves its request and its HTTP response in `last`.                     *)
(***************************************************************************)
EXTENDS Integers, Sequences, FiniteSets, TLC

VARIABLES
    users,       \* rows of table users
    testPapers,  \* rows of table test_papers
    questions,   \* rows of table questions
    results,     \* rows of table results
    nextId,      \* the AUTO_INCREMENT counter of each table
    now,         \* the clock (datetime.utcnow), in minutes
    issued,      \* the token of the latest direct create_access_token call, and its arguments
    inflight,    \* per database session: the request that has read and not yet committed
    last         \* the request just handled and its response

vars == <<users, testPapers, questions, results, nextId, now, issued, inflight, last>>

(***************************************************************************)
(* Python values carried by a submission: a value is tagged with its type. *)
(***************************************************************************)
PyNone == [t |-> "none", v |-> 0]
PyInt(n) == [t |-> "int", v |-> n]
PyBool(b) == [t |-> "bool", v |-> IF b THEN 1 ELSE 0]
\* the str whose characters are the decimal digits of n
PyStr(n) == [t |-> "str", v |-> n]

\* str(n) for a single-digit n, and int(s) for such a string
Digits == <<"0", "1", "2", "3", "4", "5", "6", "7", "8", "9">>
StrOf(n) == Digits[n + 1]
IsNumeric(s) == \E i \in 1..Len(Digits) : Digits[i] = s
IntOf(s) == (CHOOSE i \in 1..Len(Digits) : Digits[i] = s) - 1

\* `user_answer == question.correct_option_index` with an Integer column on
\* the right: Python compares numbers by value, and bool is a subclass of
\* int (True == 1, False == 0); a str or None equals no int.
PyEqInt(a, c) == a.t \in {"int", "bool"} /\ a.v = c

EmptyMap == [k \in {} |-> PyNone]

\* The values that can sit under the wrapper key, or be the answer mapping:
\* a dict (m), a list of strings or a str (items: its elements / characters),
\* a number, or None.
Dict(m) == [kind |-> "dict", m |-> m, items |-> <<>>]
ListOf(items) == [kind |-> "list", m |-> EmptyMap, items |-> items]
StrChars(items) == [kind |-> "str", m |-> EmptyMap, items |-> items]
Number == [kind |-> "num", m |-> EmptyMap, items |-> <<>>]
Null == [kind |-> "none", m |-> EmptyMap, items |-> <<>>]

\* The dict a submission route hands to the service: its question keys (m)
\* and, when the key 'user_answers' is present, the value under it (inner).
Direct(m) == [m |-> m, wrapped |-> FALSE, inner |-> Null]
Wrapped(m, inner) == [m |-> m, wrapped |-> TRUE, inner |-> inner]

(***************************************************************************)
(* json.dumps / json.loads on the values above.  The text is modelled      *)
(* token by token: an int prints as its digits, a bool as true/false, a    *)
(* str inside quotes, None as null.                                        *)
(***************************************************************************)
Quoted == <<"\"0\"", "\"1\"", "\"2\"", "\"3\"", "\"4\"", "\"5\"", "\"6\"", "\"7\"", "\"8\"", "\"9\"">>

DumpScalar(v) ==
    CASE v.t = "int" -> Digits[v.v + 1]
      [] v.t = "bool" -> (IF v.v = 1 THEN "true" ELSE "false")
      [] v.t = "str" -> Quoted[v.v + 1]
      [] OTHER -> "null"

LoadScalar(tok) ==
    IF tok = "true" THEN PyBool(TRUE)
    ELSE IF tok = "false" THEN PyBool(FALSE)
    ELSE IF tok = "null" THEN PyNone
    ELSE IF \E i \in 1..Len(Digits) : Digits[i] = tok
         THEN PyInt((CHOOSE i \in 1..Len(Digits) : Digits[i] = tok) - 1)
    ELSE PyStr((CHOOSE i \in 1..Len(Quoted) : Quoted[i] = tok) - 1)

JsonKind(kind) ==
    CASE kind = "dict" -> "object"
      [] kind = "list" -> "array"
      [] kind = "str" -> "string"
      [] kind = "num" -> "number"
      [] OTHER -> "null"

json_dumps(c) ==
    [json |-> JsonKind(c.kind),
     members |-> [k \in DOMAIN c.m |-> DumpScalar(c.m[k])],
     elems |-> c.items]

json_loads(text) ==
    [kind |-> CASE text.json = "object" -> "dict"
                [] text.json = "array" -> "list"
                [] text.json = "string" -> "str"
                [] text.json = "number" -> "num"
                [] OTHER -> "none",
     m |-> [k \in DOMAIN text.members |-> LoadScalar(text.members[k])],
     items |-> text.elems]

(***************************************************************************)
(* Passwords (passlib bcrypt): the hash keeps its salt; verification       *)
(* re-hashes the presented password under the stored salt.                 *)
(***************************************************************************)
hash_password(password, salt) ==
    [scheme |-> "bcrypt", salt |-> salt, digest |-> <<salt, password>>]

verify_password(plain_password, hashed_password) ==
    hashed_password.digest = <<hashed_password.salt, plain_password>>

(***************************************************************************)
(* Token codec (python-jose HS256).  A token carries its claims and a      *)
(* signature over them under a key; wf says the three-segment encoding is  *)
(* well formed.                                                            *)
(***************************************************************************)
SECRET_KEY == "JWT_SECRET_KEY"
ACCESS_TOKEN_EXPIRE_MINUTES == 2

\* a claims set without "sub" carries NoSub in its place
NoSub == "<absent>"
NoClaims == [sub |-> NoSub, email |-> "", role |-> "", exp |-> 0]

Sig(claims, key) == [alg |-> "HS256", key |-> key, over |-> claims]
jwt_encode(claims, key) == [claims |-> claims, sig |-> Sig(claims, key), wf |-> TRUE]
NoToken == [claims |-> NoClaims, sig |-> Sig(NoClaims, ""), wf |-> FALSE]

\* a decode that does not look at exp
jwt_decode_raises_no_expiry(token, key, t) ==
    \/ ~token.wf
    \/ token.sig # Sig(token.claims, key)

\* jwt.decode raises JWTError on a malformed token, on a signature that is
\* not the one `key` gives the claims, and (ExpiredSignatureError) when
\* exp < now.
jwt_decode_raises(token, key, t) ==
    \/ ~token.wf
    \/ token.sig # Sig(token.claims, key)
    \/ token.claims.exp < t

\* Optional[timedelta], in minutes
NoDelta == [some |-> FALSE, minutes |-> 0]
Delta(n) == [some |-> TRUE, minutes |-> n]

\* an issue that stamps the issue time as the expiry
create_access_token_expire_now(data, expires_delta, t) ==
    jwt_encode([sub |-> data.sub, email |-> data.email, role |-> data.role, exp |-> t],
               SECRET_KEY)

create_access_token(data, expires_delta, t) ==
    LET expire == IF expires_delta.some /\ expires_delta.minutes # 0
                  THEN t + expires_delta.minutes
                  ELSE t + ACCESS_TOKEN_EXPIRE_MINUTES
        to_encode == [sub |-> data.sub, email |-> data.email,
                      role |-> data.role, exp |-> expire]
    IN  jwt_encode(to_encode, SECRET_KEY)

\* a verification that refuses every token but the one of the latest login
verify_token_latest_login_only(token, t) ==
    IF \/ jwt_decode_raises(token, SECRET_KEY, t)
       \/ (last.op = "login" /\ last.status = 200 /\ last.token # token)
    THEN [ok |-> FALSE, payload |-> NoClaims]
    ELSE [ok |-> TRUE, payload |-> token.claims]

\* Optional[dict]: ok = FALSE is None
verify_token(token, t) ==
    IF jwt_decode_raises(token, SECRET_KEY, t)
    THEN [ok |-> FALSE, payload |-> NoClaims]
    ELSE [ok |-> TRUE, payload |-> token.claims]

create_user_token(user, t) ==
    create_access_token([sub |-> StrOf(user.id), email |-> user.email, role |-> user.role],
                        Delta(ACCESS_TOKEN_EXPIRE_MINUTES), t)

(***************************************************************************)
(* Accounts.                                                               *)
(***************************************************************************)
NULL == "NULL"
NoUser == [id |-> 0, email |-> "", hashed_password |-> hash_password("", ""),
           role |-> "", full_name |-> NULL, phone_number |-> NULL,
           date_of_birth |-> NULL]

UserById(user_id) == {u \in users : u.id = user_id}
UserByEmail(email) == {u \in users : u.email = email}

\* Optional[User]: ok = FALSE is None
get_user_by_id(user_id) ==
    IF UserById(user_id) = {} THEN [ok |-> FALSE, user |-> NoUser]
    ELSE [ok |-> TRUE, user |-> CHOOSE u \in UserById(user_id) : TRUE]

\* an authentication that does not check the password
authenticate_user_no_password(email, password) ==
    IF UserByEmail(email) = {} THEN [ok |-> FALSE, user |-> NoUser]
    ELSE [ok |-> TRUE, user |-> CHOOSE u \in UserByEmail(email) : TRUE]

authenticate_user(email, password) ==
    IF UserByEmail(email) = {} THEN [ok |-> FALSE, user |-> NoUser]
    ELSE LET user == CHOOSE u \in UserByEmail(email) : TRUE
         IN  IF ~verify_password(password, user.hashed_password)
             THEN [ok |-> FALSE, user |-> NoUser]
             ELSE [ok |-> TRUE, user |-> user]

\* The dependency every protected route runs first: status 200 with the
\* account, 401, or 500 when int(payload.get("sub")) raises (TypeError on a
\* missing sub, ValueError on a non-numeric one), which no handler catches.
get_current_user(token) ==
    LET v == verify_token(token, now) IN
    IF ~v.ok THEN [status |-> 401, user |-> NoUser]
    ELSE IF ~IsNumeric(v.payload.sub) THEN [status |-> 500, user |-> NoUser]
    ELSE IF IntOf(v.payload.sub) = 0 THEN [status |-> 401, user |-> NoUser]
    ELSE LET u == get_user_by_id(IntOf(v.payload.sub)) IN
         IF ~u.ok THEN [status |-> 401, user |-> NoUser]
         ELSE [status |-> 200, user |-> u.user]

\* an admin dependency that lets every authenticated account through
get_current_admin_any_role(token) == get_current_user(token)

\* get_current_user followed by the role check
get_current_admin(token) ==
    LET cu == get_current_user(token) IN
    IF cu.status # 200 THEN cu
    ELSE IF cu.user.role # "ADMIN" THEN [status |-> 403, user |-> NoUser]
    ELSE cu

(***************************************************************************)
(* Requests and responses.                                                 *)
(***************************************************************************)
Nothing == [some |-> FALSE, v |-> 0]
Some(v) == [some |-> TRUE, v |-> v]

NoReq == [tok |-> NoToken, user_id |-> 0, test_paper_id |-> 0,
          user_answers |-> Direct(EmptyMap), target |-> 0,
          email |-> "", password |-> "", phone_number |-> "", admin_secret |-> ""]

\* rid: the id of the row the response returns (0: none); token: the body
\* of a login response;
\* verified: what a direct call of verify_token returned; score: what a
\* direct run of the scoring loop returned; correct: the correct_option_id
\* of each question in the body of a question read; at: the time of the call
Respond(op, status, req, rid) ==
    [op |-> op, status |-> status, req |-> req, rid |-> rid, token |-> NoToken,
     verified |-> [ok |-> FALSE, payload |-> NoClaims], score |-> 0,
     correct |-> [question_id \in {} |-> 0], at |-> now]

\* Requests run in database sessions (get_db: one per request).  A session
\* that has run its reads and not yet its commit holds what it read.
Sessions == {1, 2}
\* kind: what the session is in the middle of; op, req: the route and its
\* request; score: the total a submission computed; full_name, role: the
\* name and role a registration is for
Idle == [kind |-> "idle", op |-> "", req |-> NoReq, full_name |-> "", role |-> "",
         score |-> 0]
NoneInflight == [s \in Sessions |-> Idle]

(***************************************************************************)
(* Test papers and questions.                                              *)
(***************************************************************************)
PaperById(test_paper_id) == {p \in testPapers : p.id = test_paper_id}
QuestionsOf(test_paper_id) == {q \in questions : q.test_paper_id = test_paper_id}

\* The loop of create_new_question / update_question over the options: the
\* index is set at every option flagged is_correct, to that option's
\* position, or to the request's correct_option_index when it has one.
RECURSIVE derive_correct_index(_, _, _, _)
derive_correct_index(options, given, i, acc) ==
    IF i > Len(options) THEN acc
    ELSE derive_correct_index(options, given, i + 1,
             IF options[i].is_correct
             THEN (IF given.some THEN given ELSE Some(i - 1))
             ELSE acc)

\* Column(Float, nullable=False, default=1.0): an INSERT of None takes the default
max_score_column(max_score) == IF max_score.some THEN max_score.v ELSE 1

\* The row create_new_question builds
new_question(question_data) ==
    [id |-> nextId.questions,
     question_text |-> question_data.text,
     test_paper_id |-> question_data.test_paper_id,
     options |-> [i \in 1..Len(question_data.options) |-> question_data.options[i].text],
     correct_option_index |->
         derive_correct_index(question_data.options, question_data.correct_option_index,
                              1, Nothing).v,
     max_score |-> max_score_column(question_data.max_score)]

\* db.commit() raises IntegrityError (caught: rollback, return None) when
\* correct_option_index is None (nullable=False) or test_paper_id names no
\* test paper (ForeignKey)
question_insert_fails(question_data) ==
    \/ ~derive_correct_index(question_data.options, question_data.correct_option_index,
                             1, Nothing).some
    \/ PaperById(question_data.test_paper_id) = {}

\* a format that reports the stored (0-based) index itself
correct_option_id_zero_based(q) ==
    IF 0 <= q.correct_option_index /\ q.correct_option_index < Len(q.options)
    THEN Some(q.correct_option_index)
    ELSE Nothing

\* format_question_output: correct_option_id is options[index]["id"] = index + 1
\* when the index is in range, else None
correct_option_id(q) ==
    IF 0 <= q.correct_option_index /\ q.correct_option_index < Len(q.options)
    THEN Some(q.correct_option_index + 1)
    ELSE Nothing

(***************************************************************************)
(* Float arithmetic.  A float keeps MantissaBits significant bits: a sum   *)
(* is rounded to the nearest number that has no more, a tie going to the   *)
(* even one.  (A Python float keeps 53; the model keeps fewer, so that the *)
(* numbers at which rounding sets in stay small.)                          *)
(***************************************************************************)
MantissaBits == 3

RECURSIVE Pow2(_)
Pow2(n) == IF n = 0 THEN 1 ELSE 2 * Pow2(n - 1)

Abs(x) == IF x < 0 THEN -x ELSE x

\* the spacing of the floats around x >= 0
RECURSIVE Ulp(_, _)
Ulp(x, u) == IF x < Pow2(MantissaBits) * u THEN u ELSE Ulp(x, 2 * u)

fround(x) ==
    LET u == Ulp(Abs(x), 1)
        q == Abs(x) \div u
        r == Abs(x) % u
        up == 2 * r > u \/ (2 * r = u /\ q % 2 = 1)
        m == (IF up THEN q + 1 ELSE q) * u
    IN  IF x < 0 THEN -m ELSE m

\* a + b on floats
fadd(a, b) == fround(a + b)

(***************************************************************************)
(* Scoring engine: submit_test_and_calculate_score.                        *)
(***************************************************************************)
\* a normalisation that never looks under the wrapper key
answer_data_no_unwrap(user_answers) == Dict(user_answers.m)

\* take the value under 'user_answers' when the key is there
answer_data(user_answers) ==
    IF user_answers.wrapped THEN user_answers.inner ELSE Dict(user_answers.m)

\* `question_id not in answer_data` raises TypeError on None and on a
\* number; on a list or a str that holds the id, `answer_data[question_id]`
\* raises TypeError
lookup_raises(ad, question_id) ==
    \/ ad.kind \in {"none", "num"}
    \/ /\ ad.kind \in {"list", "str"}
       /\ \E i \in 1..Len(ad.items) : ad.items[i] = question_id

\* len(json.dumps(options)) for one-character option texts: the column
\* holds this text, and `if question.options:` tests that it is not empty
options_text_len(q) == IF Len(q.options) = 0 THEN 2 ELSE 15 * Len(q.options)

\* what one pass of the loop body adds to total_score
question_score(q, ad) ==
    LET question_id == StrOf(q.id) IN
    IF /\ ad.kind = "dict"
       /\ question_id \in DOMAIN ad.m
       /\ options_text_len(q) > 0
       /\ PyEqInt(ad.m[question_id], q.correct_option_index)
    THEN q.max_score
    ELSE 0

\* `.all()` on a query without ORDER BY: the rows in an order the store
\* chooses
Orders(qs) ==
    {order \in [1..Cardinality(qs) -> qs] :
        \A i, j \in 1..Cardinality(qs) : order[i] = order[j] => i = j}

\* the loop `for question in questions`: total_score, 0.0 at first, is
\* added to in the order the questions were read
RECURSIVE total_score_from(_, _, _, _)
total_score_from(total, questions_read, i, ad) ==
    IF i > Len(questions_read) THEN total
    ELSE total_score_from(fadd(total, question_score(questions_read[i], ad)),
                          questions_read, i + 1, ad)

total_score(questions_read, ad) == total_score_from(0, questions_read, 1, ad)

RECURSIVE max_possible_score(_)
max_possible_score(qs) ==
    IF qs = {} THEN 0
    ELSE LET q == CHOOSE x \in qs : TRUE
         IN  q.max_score + max_possible_score(qs \ {q})

NoResult == [id |-> 0, user_id |-> 0, test_paper_id |-> 0, final_score |-> 0,
             user_answers |-> json_dumps(Null)]

\* a grading that refuses a test paper that is not active
submit_test_and_calculate_score_active_only(user_id, test_paper_id, user_answers, questions_read) ==
    LET qs == {questions_read[i] : i \in 1..Len(questions_read)}
        ad == answer_data(user_answers)
    IN  IF \A p \in PaperById(test_paper_id) : ~p.is_active
        THEN [ok |-> FALSE, row |-> NoResult]
        ELSE IF qs = {} THEN [ok |-> FALSE, row |-> NoResult]
        ELSE IF \E q \in qs : lookup_raises(ad, StrOf(q.id))
             THEN [ok |-> FALSE, row |-> NoResult]
        ELSE IF UserById(user_id) = {} THEN [ok |-> FALSE, row |-> NoResult]
        ELSE [ok |-> TRUE,
              row |-> [id |-> nextId.results,
                       user_id |-> user_id,
                       test_paper_id |-> test_paper_id,
                       final_score |-> total_score(questions_read, ad),
                       user_answers |-> json_dumps(ad)]]

\* Optional[Result]: ok = FALSE is None (test paper missing, no questions,
\* or an exception caught by `except Exception`: rollback, return None).
\* The INSERT raises IntegrityError when user_id names no account.
\* questions_read: the list the query for the questions returned.
submit_test_and_calculate_score(user_id, test_paper_id, user_answers, questions_read) ==
    LET qs == {questions_read[i] : i \in 1..Len(questions_read)}
        ad == answer_data(user_answers)
    IN  IF PaperById(test_paper_id) = {} THEN [ok |-> FALSE, row |-> NoResult]
        ELSE IF qs = {} THEN [ok |-> FALSE, row |-> NoResult]
        ELSE IF \E q \in qs : lookup_raises(ad, StrOf(q.id))
             THEN [ok |-> FALSE, row |-> NoResult]
        ELSE IF UserById(user_id) = {} THEN [ok |-> FALSE, row |-> NoResult]
        ELSE [ok |-> TRUE,
              row |-> [id |-> nextId.results,
                       user_id |-> user_id,
                       test_paper_id |-> test_paper_id,
                       final_score |-> total_score(questions_read, ad),
                       user_answers |-> json_dumps(ad)]]

ResultById(result_id) == {r \in results : r.id = result_id}

\* a store that keeps one Result per account and test paper
db_add_one_per_pair(rows, row) ==
    {r \in rows : r.user_id # row.user_id \/ r.test_paper_id # row.test_paper_id}
        \cup {row}

\* db.add(new_result); db.commit(): one more row, the others as they were
db_add(rows, row) == rows \cup {row}

(***************************************************************************)
(* Bounds of the exploration: the rows ever inserted into the test_papers, *)
(* questions and results tables together, the accounts ever registered,    *)
(* and the clock.                                                          *)
(***************************************************************************)
MaxRows == 4
MaxUsers == 4
MaxTime == 4
Pending == Cardinality({s \in Sessions : inflight[s].kind = "submit"})
Rows == (nextId.testPapers - 1) + (nextId.questions - 1) + (nextId.results - 1)
            + Pending

(***************************************************************************)
(* Route handlers.  Each is the whole handler: the authentication          *)
(* dependency, the authorization check, the service call with its commit   *)
(* or rollback, and the status the transport layer answers with.           *)
(***************************************************************************)
\* POST /test-papers/ (admin only) -> create_new_test_paper
create_test_paper(tok, name, duration_minutes, is_active) ==
    LET cu == get_current_admin(tok)
        req == [NoReq EXCEPT !.tok = tok]
    IN  /\ Rows < MaxRows
        /\ IF cu.status # 200
           THEN /\ last' = Respond("create_test_paper", cu.status, req, 0)
                /\ UNCHANGED <<testPapers, nextId>>
           ELSE /\ testPapers' = testPapers \cup
                       {[id |-> nextId.testPapers, name |-> name,
                         duration_minutes |-> duration_minutes,
                         is_active |-> is_active]}
                /\ nextId' = [nextId EXCEPT !.testPapers = @ + 1]
                /\ last' = Respond("create_test_paper", 201, req, nextId.testPapers)
        /\ UNCHANGED <<users, questions, results, now, issued, inflight>>

\* POST /questions/ (admin only) -> create_new_question.  A None from the
\* service, or a correct_option_id of None, fails the response model
\* (QuestionResponse.correct_option_id: int): 500, after the commit.
create_question(tok, question_data) ==
    LET cu == get_current_admin(tok)
        req == [NoReq EXCEPT !.tok = tok, !.test_paper_id = question_data.test_paper_id]
        q == new_question(question_data)
    IN  /\ Rows < MaxRows
        /\ IF cu.status # 200
           THEN /\ last' = Respond("create_question", cu.status, req, 0)
                /\ UNCHANGED <<questions, nextId>>
           ELSE IF question_insert_fails(question_data)
           THEN /\ last' = Respond("create_question", 500, req, 0)
                /\ UNCHANGED <<questions, nextId>>
           ELSE /\ questions' = questions \cup {q}
                /\ nextId' = [nextId EXCEPT !.questions = @ + 1]
                /\ last' = Respond("create_question",
                                   IF correct_option_id(q).some THEN 201 ELSE 500,
                                   req, q.id)
        /\ UNCHANGED <<users, testPapers, results, now, issued, inflight>>

\* POST /results/submit
results_submit_test(tok, user_id, test_paper_id, user_answers) ==
    LET cu == get_current_user(tok)
        req == [NoReq EXCEPT !.tok = tok, !.user_id = user_id,
                             !.test_paper_id = test_paper_id,
                             !.user_answers = user_answers]
    IN  /\ Rows < MaxRows
        /\ \E questions_read \in Orders(QuestionsOf(test_paper_id)) :
           LET result == submit_test_and_calculate_score(
                             user_id, test_paper_id, user_answers, questions_read) IN
           IF cu.status # 200
           THEN /\ last' = Respond("results.submit_test", cu.status, req, 0)
                /\ UNCHANGED <<results, nextId>>
           ELSE IF user_id # cu.user.id /\ cu.user.role # "ADMIN"
           THEN /\ last' = Respond("results.submit_test", 403, req, 0)
                /\ UNCHANGED <<results, nextId>>
           ELSE IF ~result.ok
           THEN /\ last' = Respond("results.submit_test", 404, req, 0)
                /\ UNCHANGED <<results, nextId>>
           ELSE /\ results' = db_add(results, result.row)
                /\ nextId' = [nextId EXCEPT !.results = @ + 1]
                /\ last' = Respond("results.submit_test", 200, req, result.row.id)
        /\ UNCHANGED <<users, testPapers, questions, now, issued, inflight>>

\* POST /test-papers/{test_paper_id}/submit: the HTTPException(500) raised
\* for a None result is itself caught by `except Exception` and re-raised
\* as a 500
test_papers_submit_test(tok, test_paper_id, data) ==
    LET cu == get_current_user(tok)
        req == [NoReq EXCEPT !.tok = tok, !.user_id = cu.user.id,
                             !.test_paper_id = test_paper_id,
                             !.user_answers = data]
    IN  /\ Rows < MaxRows
        /\ \E questions_read \in Orders(QuestionsOf(test_paper_id)) :
           LET result == submit_test_and_calculate_score(
                             cu.user.id, test_paper_id, data, questions_read) IN
           IF cu.status # 200
           THEN /\ last' = Respond("test_papers.submit_test", cu.status, req, 0)
                /\ UNCHANGED <<results, nextId>>
           ELSE IF PaperById(test_paper_id) = {}
           THEN /\ last' = Respond("test_papers.submit_test", 404, req, 0)
                /\ UNCHANGED <<results, nextId>>
           ELSE IF ~result.ok
           THEN /\ last' = Respond("test_papers.submit_test", 500, req, 0)
                /\ UNCHANGED <<results, nextId>>
           ELSE /\ results' = db_add(results, result.row)
                /\ nextId' = [nextId EXCEPT !.results = @ + 1]
                /\ last' = Respond("test_papers.submit_test", 200, req, result.row.id)
        /\ UNCHANGED <<users, testPapers, questions, now, issued, inflight>>

(***************************************************************************)
(* Result routes.                                                          *)
(***************************************************************************)
\* GET /results/{result_id}: the existence of the result is checked before
\* its ownership
get_result(tok, result_id) ==
    LET cu == get_current_user(tok)
        req == [NoReq EXCEPT !.tok = tok, !.target = result_id]
        found == ResultById(result_id)
        status == IF cu.status # 200 THEN cu.status
                  ELSE IF found = {} THEN 404
                  ELSE IF (\E r \in found : r.user_id # cu.user.id) /\ cu.user.role # "ADMIN"
                       THEN 403
                  ELSE 200
    IN  /\ last' = Respond("get_result", status, req, IF status = 200 THEN result_id ELSE 0)
        /\ UNCHANGED <<users, testPapers, questions, results, nextId, now, issued, inflight>>

\* GET /results/users/{user_id} (admin only)
get_user_results(tok, user_id) ==
    LET cu == get_current_admin(tok)
        req == [NoReq EXCEPT !.tok = tok, !.user_id = user_id]
    IN  /\ last' = Respond("get_user_results", cu.status, req, 0)
        /\ UNCHANGED <<users, testPapers, questions, results, nextId, now, issued, inflight>>

\* GET /results/test-papers/{test_paper_id} (admin only)
get_test_paper_results(tok, test_paper_id) ==
    LET cu == get_current_admin(tok)
        req == [NoReq EXCEPT !.tok = tok, !.test_paper_id = test_paper_id]
    IN  /\ last' = Respond("get_test_paper_results", cu.status, req, 0)
        /\ UNCHANGED <<users, testPapers, questions, results, nextId, now, issued, inflight>>

\* DELETE /results/{result_id} (admin only) -> delete_result
\* a deletion route that asks for an authenticated caller of any role
delete_result_by_id_any_role(tok, result_id) ==
    LET cu == get_current_user(tok)
        req == [NoReq EXCEPT !.tok = tok, !.target = result_id]
    IN  /\ IF cu.status # 200
           THEN /\ last' = Respond("delete_result_by_id", cu.status, req, 0)
                /\ UNCHANGED results
           ELSE IF ResultById(result_id) = {}
           THEN /\ last' = Respond("delete_result_by_id", 404, req, 0)
                /\ UNCHANGED results
           ELSE /\ results' = results \ ResultById(result_id)
                /\ last' = Respond("delete_result_by_id", 204, req, result_id)
        /\ UNCHANGED <<users, testPapers, questions, nextId, now, issued, inflight>>

delete_result_by_id(tok, result_id) ==
    LET cu == get_current_admin(tok)
        req == [NoReq EXCEPT !.tok = tok, !.target = result_id]
    IN  /\ IF cu.status # 200
           THEN /\ last' = Respond("delete_result_by_id", cu.status, req, 0)
                /\ UNCHANGED results
           ELSE IF ResultById(result_id) = {}
           THEN /\ last' = Respond("delete_result_by_id", 404, req, 0)
                /\ UNCHANGED results
           ELSE /\ results' = results \ ResultById(result_id)
                /\ last' = Respond("delete_result_by_id", 204, req, result_id)
        /\ UNCHANGED <<users, testPapers, questions, nextId, now, issued, inflight>>

(***************************************************************************)
(* Account routes.                                                         *)
(***************************************************************************)
\* POST /auth/login -> authenticate_user, create_user_token
login(email, password) ==
    LET a == authenticate_user(email, password)
        req == [NoReq EXCEPT !.email = email, !.password = password]
        token == create_user_token(a.user, now)
    IN  /\ last' = IF ~a.ok
                   THEN Respond("login", 401, req, 0)
                   ELSE [Respond("login", 200, req, a.user.id) EXCEPT !.token = token]
        /\ UNCHANGED <<users, testPapers, questions, results, nextId, now, issued, inflight>>

\* GET /auth/me
get_user_profile(tok) ==
    LET cu == get_current_user(tok)
        req == [NoReq EXCEPT !.tok = tok, !.user_id = cu.user.id]
    IN  /\ last' = Respond("get_user_profile", cu.status, req, cu.user.id)
        /\ UNCHANGED <<users, testPapers, questions, results, nextId, now, issued, inflight>>

\* GET /auth/users/{user_id}: the ownership check comes before the lookup
get_user_by_id_endpoint(tok, user_id) ==
    LET cu == get_current_user(tok)
        req == [NoReq EXCEPT !.tok = tok, !.user_id = user_id]
        status == IF cu.status # 200 THEN cu.status
                  ELSE IF cu.user.role # "ADMIN" /\ cu.user.id # user_id THEN 403
                  ELSE IF ~get_user_by_id(user_id).ok THEN 404
                  ELSE 200
    IN  /\ last' = Respond("get_user_by_id_endpoint", status, req,
                           IF status = 200 THEN user_id ELSE 0)
        /\ UNCHANGED <<users, testPapers, questions, results, nextId, now, issued, inflight>>

\* an update that also takes a role, and gives the target the ADMIN role
update_user_by_id_with_role(user, user_data) ==
    [user EXCEPT !.full_name = user_data.full_name,
                 !.phone_number = user_data.phone_number,
                 !.date_of_birth = user_data.date_of_birth,
                 !.role = "ADMIN"]

\* update_user_by_id: every field of the UserUpdate body is set on the row;
\* the commit raises on a phone_number another account holds (unique
\* column), the transaction is rolled back and the error re-raised
update_user_by_id(user, user_data) ==
    [user EXCEPT !.full_name = user_data.full_name,
                 !.phone_number = user_data.phone_number,
                 !.date_of_birth = user_data.date_of_birth]

update_user_raises(user_id, user_data) ==
    \E u \in users : u.id # user_id /\ u.phone_number = user_data.phone_number

\* PATCH /auth/users/{user_id}
update_user(tok, user_id, user_data) ==
    LET cu == get_current_user(tok)
        req == [NoReq EXCEPT !.tok = tok, !.user_id = user_id,
                             !.phone_number = user_data.phone_number]
        found == get_user_by_id(user_id)
    IN  /\ IF cu.status # 200
           THEN /\ last' = Respond("update_user", cu.status, req, 0)
                /\ UNCHANGED users
           ELSE IF cu.user.role # "ADMIN" /\ cu.user.id # user_id
           THEN /\ last' = Respond("update_user", 403, req, 0)
                /\ UNCHANGED users
           ELSE IF ~found.ok
           THEN /\ last' = Respond("update_user", 404, req, 0)
                /\ UNCHANGED users
           ELSE IF update_user_raises(user_id, user_data)
           THEN /\ last' = Respond("update_user", 500, req, 0)
                /\ UNCHANGED users
           ELSE /\ users' = (users \ {found.user}) \cup
                                {update_user_by_id(found.user, user_data)}
                /\ last' = Respond("update_user", 200, req, user_id)
        /\ UNCHANGED <<testPapers, questions, results, nextId, now, issued, inflight>>

\* register_user: None when the email is taken, else the inserted row
register_user(full_name, email, password, role) ==
    IF UserByEmail(email) # {} THEN [ok |-> FALSE, user |-> NoUser]
    ELSE [ok |-> TRUE,
          user |-> [id |-> nextId.users, email |-> email,
                    hashed_password |-> hash_password(password, "salt"),
                    role |-> role, full_name |-> full_name,
                    phone_number |-> NULL, date_of_birth |-> NULL]]

\* POST /auth/admin/create-user (admin only) -> register_user
admin_create_user(tok, user_data) ==
    LET cu == get_current_admin(tok)
        req == [NoReq EXCEPT !.tok = tok, !.email = user_data.email,
                             !.password = user_data.password]
        new_user == register_user(user_data.full_name, user_data.email,
                                  user_data.password, "USER")
    IN  /\ nextId.users <= MaxUsers
        /\ IF cu.status # 200
           THEN /\ last' = Respond("admin_create_user", cu.status, req, 0)
                /\ UNCHANGED <<users, nextId>>
           ELSE IF ~new_user.ok
           THEN /\ last' = Respond("admin_create_user", 400, req, 0)
                /\ UNCHANGED <<users, nextId>>
           ELSE /\ users' = users \cup {new_user.user}
                /\ nextId' = [nextId EXCEPT !.users = @ + 1]
                /\ last' = Respond("admin_create_user", 201, req, new_user.user.id)
        /\ UNCHANGED <<testPapers, questions, results, now, issued, inflight>>

(***************************************************************************)
(* Direct calls of the token functions, and the clock.                     *)
(***************************************************************************)
call_create_access_token(data, expires_delta) ==
    LET token == create_access_token(data, expires_delta, now)
    IN  /\ issued' = [token |-> token, data |-> data, delta |-> expires_delta, at |-> now]
        /\ last' = [Respond("create_access_token", 0, NoReq, 0) EXCEPT !.token = token]
        /\ UNCHANGED <<users, testPapers, questions, results, nextId, now, inflight>>

call_verify_token(tok) ==
    /\ last' = [Respond("verify_token", 0, [NoReq EXCEPT !.tok = tok], 0)
                   EXCEPT !.verified = verify_token(tok, now)]
    /\ UNCHANGED <<users, testPapers, questions, results, nextId, now, issued, inflight>>

tick ==
    /\ now < MaxTime
    /\ now' = now + 1
    /\ UNCHANGED <<users, testPapers, questions, results, nextId, issued, inflight, last>>

(***************************************************************************)
(* The grading specification: an administrator authors test papers and     *)
(* questions, accounts submit answers through both submission routes.      *)
(* The three accounts were registered beforehand (register_user twice,     *)
(* register_admin once; each chose its email as its password), and each    *)
(* holds the token its login returned at time 0.                           *)
(***************************************************************************)
SeedUser(id, email, role) ==
    [id |-> id, email |-> email, hashed_password |-> hash_password(email, "salt"),
     role |-> role, full_name |-> NULL, phone_number |-> NULL,
     date_of_birth |-> NULL]

SeedUsers == {SeedUser(1, "a@x", "USER"), SeedUser(2, "b@x", "USER"),
              SeedUser(3, "root@x", "ADMIN")}

TokenOf(u) == create_user_token(u, 0)
UserTok == TokenOf(SeedUser(1, "a@x", "USER"))
OtherTok == TokenOf(SeedUser(2, "b@x", "USER"))
AdminTok == TokenOf(SeedUser(3, "root@x", "ADMIN"))

NoData == [sub |-> NoSub, email |-> "", role |-> ""]
NoIssue == [token |-> NoToken, data |-> NoData, delta |-> NoDelta, at |-> 0]

InitGrade ==
    /\ users = SeedUsers
    /\ testPapers = {}
    /\ questions = {}
    /\ results = {}
    /\ nextId = [users |-> 4, testPapers |-> 1, questions |-> 1, results |-> 1]
    /\ now = 0
    /\ issued = NoIssue
    /\ inflight = NoneInflight
    /\ last = Respond("init", 0, NoReq, 0)

\* The answer mappings clients send: question id string -> selected-option
\* indicator (an int, but also a bool or a str)
AnswerMaps ==
    {EmptyMap,
     [k \in {"1"} |-> PyInt(1)],
     [k \in {"1"} |-> PyBool(TRUE)],
     [k \in {"1"} |-> PyStr(1)],
     [k \in {"1", "2"} |-> IF k = "1" THEN PyInt(0) ELSE PyInt(1)]}

\* values under the wrapper key that are not mappings
Malformed == {Null, Number, ListOf(<<>>), ListOf(<<"1">>), StrChars(<<"1">>)}

Submissions ==
    {Direct(m) : m \in AnswerMaps}
      \cup {Wrapped(EmptyMap, Dict(m)) : m \in AnswerMaps}
      \cup {Wrapped(EmptyMap, c) : c \in Malformed}
      \cup {Wrapped([k \in {"1"} |-> PyInt(1)], Dict(EmptyMap))}

Option(is_correct) == [text |-> "a", is_correct |-> is_correct]

\* QuestionCreate bodies for test paper 1: two options, flagged or not,
\* with and without max_score (which the schema does not range-check)
QuestionBodies ==
    {[text |-> "q", test_paper_id |-> 1,
      options |-> <<Option(c[1]), Option(c[2])>>,
      correct_option_index |-> Nothing,
      max_score |-> ms] :
        c \in {<<TRUE, FALSE>>, <<FALSE, TRUE>>, <<FALSE, FALSE>>},
        ms \in {Nothing, Some(2), Some(-1)}}

NextGrade ==
    \/ \E tok \in {AdminTok, UserTok} :
           create_test_paper(tok, "paper", 60, TRUE)
    \/ \E qd \in QuestionBodies :
           create_question(AdminTok, qd)
    \/ \E ua \in Submissions :
           results_submit_test(UserTok, 1, 1, ua)
    \/ \E tp \in {2, 3} :
           results_submit_test(UserTok, 1, tp, Direct(EmptyMap))
    \/ results_submit_test(UserTok, 2, 1, Direct(EmptyMap))
    \/ \E ua \in Submissions :
           test_papers_submit_test(UserTok, 1, ua)
    \/ \E tp \in {2, 3} :
           test_papers_submit_test(UserTok, tp, Direct(EmptyMap))

SpecGrade == InitGrade /\ [][NextGrade]_vars

(***************************************************************************)
(* Properties of the scoring engine.                                       *)
(***************************************************************************)
SubmitOps == {"results.submit_test", "test_papers.submit_test"}

\* the request just handled was a submission that passed authentication
\* and the ownership check
Submitted == last.op \in SubmitOps /\ last.status \notin {401, 403}

\* the request just handled was a submission that created a Result
Created == last.op \in SubmitOps /\ last.status = 200

LastResult == CHOOSE r \in results : r.id = last.rid

\* the questions of the test paper the last request names; a submission
\* changes neither test papers nor questions, so these are the questions
\* read at grading time
Graded == QuestionsOf(last.req.test_paper_id)

\* The score the specification describes: max_score for a question whose
\* id string is a key of the normalized mapping with the stored index (an
\* int) as its value, 0 for every other question
strict_score(q, ad) ==
    IF /\ ad.kind = "dict"
       /\ StrOf(q.id) \in DOMAIN ad.m
       /\ ad.m[StrOf(q.id)] = PyInt(q.correct_option_index)
    THEN q.max_score
    ELSE 0

RECURSIVE strict_total(_, _)
strict_total(qs, ad) ==
    IF qs = {} THEN 0
    ELSE LET q == CHOOSE x \in qs : TRUE
         IN  strict_score(q, ad) + strict_total(qs \ {q}, ad)

\* C1: the persisted final_score is the sum of max_score over exactly the
\* questions whose id is a key of the normalized answer mapping and whose
\* submitted value is the stored correct_option_index; a value of another
\* type (a string, a boolean) contributes 0.
C1_ScoreIsStrictSum ==
    Created =>
        LastResult.final_score =
            strict_total(Graded, answer_data(last.req.user_answers))

\* C2: for every Result a submission creates, 0 <= final_score <=
\* maxPossibleScore, the sum of max_score over the questions of the test
\* paper at grading time, whatever questions create_new_question stored.
C2_ScoreWithinRange ==
    Created =>
        /\ 0 <= LastResult.final_score
        /\ LastResult.final_score <= max_possible_score(Graded)

\* C4: a submission to a test paper that does not exist or has no
\* questions is answered 404 by both submission routes and creates no
\* Result.
C4_NothingToGradeIs404 ==
    (Submitted /\ (PaperById(last.req.test_paper_id) = {} \/ Graded = {}))
        => (last.status = 404 /\ last.rid = 0)

\* C5: once the test paper exists and has a question, a submission creates
\* a Result whatever the payload's nesting, also when the value under
\* 'user_answers' is not a mapping.
C5_AlwaysCreatesResult ==
    (Submitted /\ PaperById(last.req.test_paper_id) # {} /\ Graded # {})
        => (last.status = 200 /\ ResultById(last.rid) # {})

\* C6: submitting {user_answers: m} stores the same final_score and the same
\* answer snapshot as submitting m itself, and the snapshot read back holds
\* the indicators as they were sent, type included.
C6_WrappedSameAsDirect ==
    Created =>
        LET ua == last.req.user_answers
            r == LastResult
            direct(questions_read) ==
                submit_test_and_calculate_score(
                    r.user_id, r.test_paper_id, Direct(ua.inner.m), questions_read).row
        IN  /\ (ua.wrapped /\ ua.inner.kind = "dict") =>
                   /\ \E questions_read \in Orders(Graded) :
                          /\ r.final_score = direct(questions_read).final_score
                          /\ r.user_answers = direct(questions_read).user_answers
                   /\ json_loads(r.user_answers) = Dict(ua.inner.m)
            /\ ~ua.wrapped => json_loads(r.user_answers) = Dict(ua.m)

\* a wrapped mapping with a typed indicator was graded and scored
C6_Witness ==
    /\ Created
    /\ last.req.user_answers.wrapped
    /\ last.req.user_answers.inner.kind = "dict"
    /\ last.req.user_answers.inner.m # EmptyMap
    /\ LastResult.final_score > 0

(***************************************************************************)
(* The token specification: the accounts log in, the token functions are   *)
(* called directly on claims sets and time-to-live values, tokens genuine  *)
(* and altered are verified, and the clock advances.                       *)
(***************************************************************************)
ClaimSets ==
    {[sub |-> "1", email |-> "a@x", role |-> "USER"],
     [sub |-> "3", email |-> "root@x", role |-> "ADMIN"],
     [sub |-> "9", email |-> "z@x", role |-> "USER"]}

\* timedelta values: absent, zero, shorter and longer than the default
Deltas == {NoDelta, Delta(0), Delta(1), Delta(3)}

Emails == {"a@x", "root@x", "nobody@x"}
Passwords == {"a@x", "root@x", "wrong"}

\* what an attacker makes of a token: signed under another key, claims
\* altered under the original signature, encoding broken
Forged(token) == jwt_encode(token.claims, "attacker-key")
Tampered(token) == [token EXCEPT !.claims.role = "ADMIN", !.claims.sub = "3"]
Garbled(token) == [token EXCEPT !.wf = FALSE]

InitAuth == InitGrade

NextAuth ==
    \/ \E email \in Emails, password \in Passwords :
           login(email, password)
    \/ \E data \in ClaimSets, expires_delta \in Deltas :
           call_create_access_token(data, expires_delta)
    \/ \E tok \in {issued.token, last.token} :
           call_verify_token(tok)
    \/ \E tok \in {Forged(issued.token), Tampered(issued.token), Garbled(issued.token)} :
           call_verify_token(tok)
    \/ tick

SpecAuth == InitAuth /\ [][NextAuth]_vars

(***************************************************************************)
(* Properties of the token functions.                                      *)
(***************************************************************************)
\* the request just handled verified the token most recently issued, which
\* was made with a time-to-live ttl > 0, before its expiry
VerifiedInTime ==
    /\ last.op = "verify_token"
    /\ issued.token # NoToken
    /\ last.req.tok = issued.token
    /\ issued.delta.some
    /\ issued.delta.minutes > 0
    /\ issued.at <= last.at
    /\ last.at < issued.at + issued.delta.minutes

\* C7: verify_token(create_access_token(claims, ttl)), for ttl > 0 and
\* evaluated before the expiry, returns a payload whose sub, email and role
\* are those of the claims set the token was issued for.
C7_RoundTrip ==
    VerifiedInTime =>
        /\ last.verified.ok
        /\ last.verified.payload.sub = issued.data.sub
        /\ last.verified.payload.email = issued.data.email
        /\ last.verified.payload.role = issued.data.role

\* a token issued with a ttl longer than one unit was verified after time
\* had passed, and it returned its claims
C7_Witness ==
    /\ VerifiedInTime
    /\ last.at > issued.at
    /\ last.verified.ok
    /\ last.verified.payload.sub = issued.data.sub

\* the token the last verify_token call was given is malformed, or its
\* signature is not the one the process secret gives its claims, or its
\* expiry was in the past at the time of the call
MalformedToken(token) == ~token.wf
WrongSignature(token) == token.sig # Sig(token.claims, SECRET_KEY)
Expired(token, t) == token.claims.exp < t

\* C8: for a malformed token, a token whose signature does not match the
\* process secret, and a token whose expiry is in the past, verify_token
\* returns None and never the claims.
C8_InvalidTokenIsNone ==
    (/\ last.op = "verify_token"
     /\ \/ MalformedToken(last.req.tok)
        \/ WrongSignature(last.req.tok)
        \/ Expired(last.req.tok, last.at))
        => (~last.verified.ok /\ last.verified.payload = NoClaims)

\* a well-formed token with the right signature was verified after its
\* expiry and was refused
C8_Witness ==
    /\ last.op = "verify_token"
    /\ ~MalformedToken(last.req.tok)
    /\ ~WrongSignature(last.req.tok)
    /\ Expired(last.req.tok, last.at)
    /\ last.req.tok.claims.sub # NoSub
    /\ ~last.verified.ok

(***************************************************************************)
(* The access specification: every protected route is called with the      *)
(* token of each account.  The tokens of the first logins (time 0) have    *)
(* expired; the accounts hold the tokens of a login at LoginTime, which is *)
(* now.                                                                    *)
(***************************************************************************)
LoginTime == ACCESS_TOKEN_EXPIRE_MINUTES + 1

FreshTok(u) == create_user_token(u, LoginTime)
GoodToks == {FreshTok(u) : u \in SeedUsers}

\* create_access_token called on claims without a subject, with a subject
\* that is not a number, with subject "0", and with the id of no account
Signed(sub) ==
    create_access_token([sub |-> sub, email |-> "a@x", role |-> "USER"],
                        NoDelta, LoginTime)

BadToks ==
    {UserTok, Garbled(AdminTok), Forged(FreshTok(SeedUser(3, "root@x", "ADMIN"))),
     Tampered(FreshTok(SeedUser(1, "a@x", "USER"))),
     Signed(NoSub), Signed("abc"), Signed("0"), Signed("9")}

OneAnswer == Direct([k \in {"1"} |-> PyInt(0)])

OneQuestion ==
    [text |-> "q", test_paper_id |-> 1,
     options |-> <<Option(TRUE), Option(FALSE)>>,
     correct_option_index |-> Nothing, max_score |-> Nothing]

OneProfile == [full_name |-> "Ann", phone_number |-> "5550000000",
               date_of_birth |-> "2000-01-01"]

OneAccount == [email |-> "c@x", password |-> "secret", full_name |-> "Cy"]

InitAccess ==
    /\ users = SeedUsers
    /\ testPapers = {}
    /\ questions = {}
    /\ results = {}
    /\ nextId = [users |-> 4, testPapers |-> 1, questions |-> 1, results |-> 1]
    /\ now = LoginTime
    /\ issued = NoIssue
    /\ inflight = NoneInflight
    /\ last = Respond("init", 0, NoReq, 0)

NextAccess ==
    \/ \E tok \in GoodToks : create_test_paper(tok, "paper", 60, TRUE)
    \/ \E tok \in GoodToks : create_question(tok, OneQuestion)
    \/ \E tok \in GoodToks, user_id \in {1, 2} :
           results_submit_test(tok, user_id, 1, OneAnswer)
    \/ \E tok \in GoodToks : test_papers_submit_test(tok, 1, OneAnswer)
    \/ \E tok \in GoodToks, result_id \in {1, 2} : get_result(tok, result_id)
    \/ \E tok \in GoodToks : get_user_results(tok, 1)
    \/ \E tok \in GoodToks : get_test_paper_results(tok, 1)
    \/ \E tok \in GoodToks, result_id \in {1, 2} : delete_result_by_id(tok, result_id)
    \/ \E tok \in GoodToks : get_user_profile(tok)
    \/ \E tok \in GoodToks, user_id \in {1, 2, 9} : get_user_by_id_endpoint(tok, user_id)
    \/ \E tok \in GoodToks, user_id \in {1, 2, 9} : update_user(tok, user_id, OneProfile)
    \/ \E tok \in GoodToks : admin_create_user(tok, OneAccount)
    \/ \E email \in Emails \cup {"c@x"}, password \in {"a@x", "wrong", "secret"} :
           login(email, password)

SpecAccess == InitAccess /\ [][NextAccess]_vars

(***************************************************************************)
(* The unauthenticated specification: the administrator fills the store,   *)
(* and every protected route is called with each token that does not       *)
(* authenticate, on rows that exist.                                       *)
(***************************************************************************)
RootTok == FreshTok(SeedUser(3, "root@x", "ADMIN"))

NextUnauth ==
    \/ create_test_paper(RootTok, "paper", 60, TRUE)
    \/ create_question(RootTok, OneQuestion)
    \/ results_submit_test(RootTok, 1, 1, OneAnswer)
    \/ \E tok \in BadToks : create_test_paper(tok, "paper", 60, TRUE)
    \/ \E tok \in BadToks : create_question(tok, OneQuestion)
    \/ \E tok \in BadToks : results_submit_test(tok, 1, 1, OneAnswer)
    \/ \E tok \in BadToks : test_papers_submit_test(tok, 1, OneAnswer)
    \/ \E tok \in BadToks : get_result(tok, 1)
    \/ \E tok \in BadToks : get_user_results(tok, 1)
    \/ \E tok \in BadToks : get_test_paper_results(tok, 1)
    \/ \E tok \in BadToks : delete_result_by_id(tok, 1)
    \/ \E tok \in BadToks : get_user_profile(tok)
    \/ \E tok \in BadToks : get_user_by_id_endpoint(tok, 1)
    \/ \E tok \in BadToks : update_user(tok, 1, OneProfile)
    \/ \E tok \in BadToks : admin_create_user(tok, OneAccount)

SpecUnauth == InitAccess /\ [][NextUnauth]_vars

(***************************************************************************)
(* Properties of authentication and authorization.  They are stated on the *)
(* step that handles a request: last' holds the request and its response,  *)
(* the unprimed variables the store the handler read.                      *)
(***************************************************************************)
Stored == <<users, testPapers, questions, results, nextId>>

\* operations an account may perform on what it owns
SelfOps == {"results.submit_test", "test_papers.submit_test", "get_result",
            "get_user_profile", "get_user_by_id_endpoint", "update_user"}

\* operations reserved to administrators
AdminOps == {"get_user_results", "get_test_paper_results", "delete_result_by_id",
             "create_test_paper", "create_question", "admin_create_user"}

ProtectedOps == SelfOps \cup AdminOps

\* the step handles a request to a protected operation
Handles(ops) == last'.op \in ops /\ now' = now

\* the account the request's token authenticates
Requester == get_current_user(last'.req.tok)

\* whether the request has a target with an owner (a result read names a
\* result that may not exist), and the id of that owner
HasOwner == last'.op = "get_result" => ResultById(last'.req.target) # {}

Owner ==
    IF last'.op = "get_result"
    THEN (CHOOSE r \in ResultById(last'.req.target) : TRUE).user_id
    ELSE last'.req.user_id

Allowed == last'.status \notin {401, 403}

\* C3: an ADMIN requester is allowed every operation on every owner's
\* resources; a USER requester is allowed a self-permitted operation if and
\* only if it owns the target, and is answered 403 on every admin-only
\* operation.
AccessDecision ==
    /\ Requester.user.role = "ADMIN" => Allowed
    /\ (Requester.user.role = "USER" /\ last'.op \in SelfOps /\ HasOwner)
           => (Allowed <=> Owner = Requester.user.id)
    /\ (Requester.user.role = "USER" /\ last'.op \in AdminOps)
           => last'.status = 403

C3_AccessDecision ==
    [][(Handles(ProtectedOps) /\ Requester.status = 200) => AccessDecision]_vars

\* a USER was refused another account's result, which exists
C3_Witness ==
    /\ last.op = "get_result"
    /\ last.status = 403
    /\ get_current_user(last.req.tok).user.role = "USER"
    /\ \E r \in ResultById(last.req.target) :
           r.user_id # get_current_user(last.req.tok).user.id

\* the token fails verification, or carries no usable subject (none, not a
\* number, zero), or its subject is the id of no account
FailsVerification(tok) == ~verify_token(tok, now).ok
NoUsableSubject(tok) ==
    LET sub == verify_token(tok, now).payload.sub
    IN  sub = NoSub \/ ~IsNumeric(sub) \/ IntOf(sub) = 0
NamesNoAccount(tok) ==
    LET sub == verify_token(tok, now).payload.sub
    IN  IsNumeric(sub) /\ UserById(IntOf(sub)) = {}

DoesNotAuthenticate(tok) ==
    FailsVerification(tok) \/ NoUsableSubject(tok) \/ NamesNoAccount(tok)

\* C9: a protected operation called with a token that fails verification,
\* carries no usable subject, or names no existing account is answered 401
\* and changes no account, test paper, question or result.
C9_UnauthenticatedIs401 ==
    [][(Handles(ProtectedOps) /\ DoesNotAuthenticate(last'.req.tok))
           => (last'.status = 401 /\ UNCHANGED Stored)]_vars

\* C10: login issues a token if and only if an account has the presented
\* email and the presented password verifies against its hash; the token
\* carries that account's id, email and role; an unknown email and a wrong
\* password are answered alike (401, no token); login changes nothing
\* stored.
LoginContract ==
    LET account == {u \in users : /\ u.email = last'.req.email
                                  /\ verify_password(last'.req.password,
                                                     u.hashed_password)}
        payload == verify_token(last'.token, now).payload
    IN  /\ last'.status = 200 <=> account # {}
        /\ last'.status = 200 =>
               /\ last'.token # NoToken
               /\ verify_token(last'.token, now).ok
               /\ \E u \in account : /\ payload.sub = StrOf(u.id)
                                     /\ payload.email = u.email
                                     /\ payload.role = u.role
        /\ last'.status # 200 =>
               /\ last' = Respond("login", 401, last'.req, 0)
               /\ \A wrong \in Passwords :
                      authenticate_user("nobody@x", wrong) =
                          authenticate_user(last'.req.email, last'.req.password)
        /\ UNCHANGED Stored

C10_LoginContract == [][Handles({"login"}) => LoginContract]_vars

\* a login with the password of an account created by an administrator
\* returned a token that authenticates as that account
C10_Witness ==
    /\ last.op = "login"
    /\ last.status = 200
    /\ last.req.email = "c@x"
    /\ get_current_user(last.token).status = 200
    /\ get_current_user(last.token).user.id = last.rid

(***************************************************************************)
(* Deleting a test paper.                                                  *)
(***************************************************************************)
\* delete_test_paper: db.delete(test_paper) removes, with the paper, its
\* questions and its results (relationship cascade="all, delete-orphan";
\* ForeignKey ondelete="CASCADE")
delete_test_paper(test_paper_id) ==
    [testPapers |-> testPapers \ PaperById(test_paper_id),
     questions |-> questions \ QuestionsOf(test_paper_id),
     results |-> {r \in results : r.test_paper_id # test_paper_id}]

\* DELETE /test-papers/{test_paper_id} (admin only) -> delete_test_paper
delete_test_paper_by_id(tok, test_paper_id) ==
    LET cu == get_current_admin(tok)
        req == [NoReq EXCEPT !.tok = tok, !.test_paper_id = test_paper_id]
        after == delete_test_paper(test_paper_id)
    IN  /\ IF cu.status # 200
           THEN /\ last' = Respond("delete_test_paper_by_id", cu.status, req, 0)
                /\ UNCHANGED <<testPapers, questions, results>>
           ELSE IF PaperById(test_paper_id) = {}
           THEN /\ last' = Respond("delete_test_paper_by_id", 404, req, 0)
                /\ UNCHANGED <<testPapers, questions, results>>
           ELSE /\ testPapers' = after.testPapers
                /\ questions' = after.questions
                /\ results' = after.results
                /\ last' = Respond("delete_test_paper_by_id", 204, req, test_paper_id)
        /\ UNCHANGED <<users, nextId, now, issued, inflight>>

(***************************************************************************)
(* The session specification: the accounts hold the tokens of their login  *)
(* at time 0; the clock advances while accounts log in again, profiles are *)
(* updated, accounts are created, answers are submitted, and results and   *)
(* test papers are deleted.                                                *)
(***************************************************************************)
NextSession ==
    \/ tick
    \/ login("a@x", "a@x")
    \/ \E tok \in {UserTok, AdminTok} : update_user(tok, 1, OneProfile)
    \/ admin_create_user(AdminTok, OneAccount)
    \/ create_test_paper(AdminTok, "paper", 60, TRUE)
    \/ create_question(AdminTok, OneQuestion)
    \/ results_submit_test(UserTok, 1, 1, OneAnswer)
    \/ delete_result_by_id(AdminTok, 1)
    \/ delete_test_paper_by_id(AdminTok, 1)
    \/ \E tok \in {UserTok, OtherTok, AdminTok} : get_user_profile(tok)

SpecSession == InitGrade /\ [][NextSession]_vars

\* C11: a token issued for an account authenticates as that account, with
\* its email and role, at every time up to its expiry whatever operations
\* were run since, and at no time after its expiry.
C11_NoRevocation ==
    \A u \in SeedUsers :
        LET cu == get_current_user(TokenOf(u)) IN
        IF now <= TokenOf(u).claims.exp
        THEN /\ cu.status = 200
             /\ cu.user.id = u.id
             /\ cu.user.email = u.email
             /\ cu.user.role = u.role
        ELSE cu.status = 401

\* the account updated its profile, logged in again and had its result
\* deleted by the administrator, and its first token still authenticates
C11_Witness ==
    /\ now > 0
    /\ now <= UserTok.claims.exp
    /\ last.op = "get_user_profile"
    /\ last.req.tok = UserTok
    /\ last.status = 200
    /\ \E u \in users : u.id = 1 /\ u.phone_number # NULL
    /\ nextId.results > 1
    /\ results = {}
    /\ nextId.users > 4

(***************************************************************************)
(* Regrading: the scoring loop run again over one test paper's questions,  *)
(* each time in an order of the store's choosing.                          *)
(***************************************************************************)
\* one run of the loop of submit_test_and_calculate_score over the
\* questions of test paper 1, for a normalised answer mapping
call_total_score(questions_read, ad) ==
    /\ last' = [Respond("total_score", 0, [NoReq EXCEPT !.test_paper_id = 1,
                                                        !.user_answers = ad], 0)
                   EXCEPT !.score = total_score(questions_read, ad)]
    /\ UNCHANGED <<users, testPapers, questions, results, nextId, now, issued, inflight>>

\* max_score values an administrator gave: small ones, and one at which the
\* floats are two apart
MaxScores == {1, 2, Pow2(MantissaBits)}

SeedPaper == [id |-> 1, name |-> "paper", duration_minutes |-> 60, is_active |-> TRUE]

SeedQuestion(id, max_score) ==
    [id |-> id, question_text |-> "q", test_paper_id |-> 1,
     options |-> <<"a", "a">>, correct_option_index |-> 0, max_score |-> max_score]

\* test paper 1 with three questions, authored beforehand
InitRegrade ==
    /\ users = SeedUsers
    /\ testPapers = {SeedPaper}
    /\ \E ms \in [1..3 -> MaxScores] :
           questions = {SeedQuestion(i, ms[i]) : i \in 1..3}
    /\ results = {}
    /\ nextId = [users |-> 4, testPapers |-> 2, questions |-> 4, results |-> 1]
    /\ now = 0
    /\ issued = NoIssue
    /\ inflight = NoneInflight
    /\ last = Respond("init", 0, NoReq, 0)

\* answer mappings: each question answered with its correct option or left out
Answered == {Dict([k \in {StrOf(i) : i \in ids} |-> PyInt(0)]) : ids \in SUBSET (1..3)}

NextRegrade ==
    \E questions_read \in Orders(QuestionsOf(1)), ad \in Answered :
        call_total_score(questions_read, ad)

SpecRegrade == InitRegrade /\ [][NextRegrade]_vars

\* C12: grading is deterministic: two runs of the scoring loop over the same
\* answer mapping and the same set of questions return the same total, in
\* whatever order each run read the questions.
C12_Deterministic ==
    [][(/\ last.op = "total_score"
        /\ last'.op = "total_score"
        /\ last'.req.user_answers = last.req.user_answers
        /\ questions' = questions)
          => last'.score = last.score]_vars

(***************************************************************************)
(* Results as history.                                                     *)
(***************************************************************************)
\* the Results of one account for one test paper
ResultsOf(rows, user_id, test_paper_id) ==
    {r \in rows : r.user_id = user_id /\ r.test_paper_id = test_paper_id}

QuestionById(question_id) == {q \in questions : q.id = question_id}

\* PUT /questions/{question_id} (admin): update_question returns None for a
\* question that is not there (404).  For one that is, it sets the given
\* fields on the loaded row and then reads question_data.difficulty, a
\* field QuestionUpdate does not have: AttributeError, which the handler
\* for SQLAlchemyError does not catch.  Nothing was committed, the session
\* is released, and the request ends in a 500.
update_question_by_id(tok, question_id, question_data) ==
    LET cu == get_current_admin(tok)
        req == [NoReq EXCEPT !.tok = tok, !.target = question_id]
    IN  /\ last' = Respond("update_question_by_id",
                           IF cu.status # 200 THEN cu.status
                           ELSE IF QuestionById(question_id) = {} THEN 404
                           ELSE 500,
                           req, 0)
        /\ UNCHANGED <<users, testPapers, questions, results, nextId, now, issued, inflight>>

\* a deletion that also resets the scores of the Results of the test paper
\* the question belonged to
delete_question_regrading(question_id) ==
    [questions |-> questions \ QuestionById(question_id),
     results |-> {IF \E q \in QuestionById(question_id) : q.test_paper_id = r.test_paper_id
                  THEN [r EXCEPT !.final_score = 0] ELSE r : r \in results}]

\* delete_question: the store after db.delete(question); db.commit().  No
\* table refers to a question.
delete_question(question_id) ==
    [questions |-> questions \ QuestionById(question_id),
     results |-> results]

\* DELETE /questions/{question_id} (admin)
delete_question_by_id(tok, question_id) ==
    LET cu == get_current_admin(tok)
        req == [NoReq EXCEPT !.tok = tok, !.target = question_id]
        after == delete_question(question_id)
    IN  /\ IF cu.status # 200
           THEN /\ last' = Respond("delete_question_by_id", cu.status, req, 0)
                /\ UNCHANGED <<questions, results>>
           ELSE IF QuestionById(question_id) = {}
           THEN /\ last' = Respond("delete_question_by_id", 404, req, 0)
                /\ UNCHANGED <<questions, results>>
           ELSE /\ questions' = after.questions
                /\ results' = after.results
                /\ last' = Respond("delete_question_by_id", 204, req, question_id)
        /\ UNCHANGED <<users, testPapers, nextId, now, issued, inflight>>

\* update_result (result_service; no route calls it): final_score and
\* user_answers are replaced when given, user_answers through json.dumps
update_result(result_id, result_data) ==
    {IF r.id = result_id
     THEN [r EXCEPT !.final_score =
                        IF result_data.final_score.some
                        THEN result_data.final_score.v ELSE @,
                    !.user_answers =
                        IF result_data.user_answers.some
                        THEN json_dumps(result_data.user_answers.v) ELSE @]
     ELSE r : r \in results}

call_update_result(result_id, result_data) ==
    /\ results' = update_result(result_id, result_data)
    /\ last' = Respond("update_result",
                       IF ResultById(result_id) = {} THEN 404 ELSE 200,
                       [NoReq EXCEPT !.target = result_id], result_id)
    /\ UNCHANGED <<users, testPapers, questions, nextId, now, issued, inflight>>

\* ResultUpdate bodies: a corrected score, corrected answers
Corrections ==
    {[final_score |-> Some(5), user_answers |-> [some |-> FALSE, v |-> Null]],
     [final_score |-> Nothing, user_answers |-> Some(Dict(EmptyMap))]}

OtherQuestion ==
    [text |-> "q", test_paper_id |-> 1,
     options |-> <<Option(FALSE), Option(TRUE)>>,
     correct_option_index |-> Nothing, max_score |-> Some(2)]

NextSnapshot ==
    \/ create_test_paper(AdminTok, "paper", 60, TRUE)
    \/ \E qd \in {OneQuestion, OtherQuestion} : create_question(AdminTok, qd)
    \/ \E question_id \in {1, 2} : update_question_by_id(AdminTok, question_id, OtherQuestion)
    \/ \E question_id \in {1, 2} : delete_question_by_id(AdminTok, question_id)
    \/ results_submit_test(UserTok, 1, 1, OneAnswer)
    \/ test_papers_submit_test(OtherTok, 1, OneAnswer)
    \/ \E result_data \in Corrections : call_update_result(1, result_data)
    \/ delete_result_by_id(AdminTok, 1)
    \/ delete_test_paper_by_id(AdminTok, 1)

SpecSnapshot == InitGrade /\ [][NextSnapshot]_vars

ModifyOps == {"update_result"}
RemoveOps == {"delete_result_by_id", "delete_test_paper_by_id"}

\* C14: a stored Result is a frozen snapshot: whatever step is taken, every
\* Result is afterwards stored exactly as before (same final_score, same
\* answers), unless the step is update_result on that Result or a deletion
\* that removes it; in particular creating, updating or deleting a Question
\* and later submissions change no stored Result.
C14_FrozenSnapshot ==
    [][\A r \in results :
          \/ r \in results'
          \/ /\ last'.op \in ModifyOps
             /\ last'.rid = r.id
             /\ \E s \in results' : s.id = r.id
          \/ /\ last'.op \in RemoveOps
             /\ \A s \in results' : s.id # r.id]_vars

\* a Result with the score it was given when question 1 was there, after
\* question 1 was deleted and another question was added to the test paper
C14_Witness ==
    /\ \E r \in results : r.id = 1 /\ r.final_score = 1 /\ r.test_paper_id = 1
    /\ QuestionById(1) = {}
    /\ QuestionsOf(1) # {}
    /\ last.op = "create_question"
    /\ last.status = 201

(***************************************************************************)
(* Submissions that interleave with other requests.  The service reads the *)
(* test paper and its questions, scores, and only then inserts and         *)
(* commits; another request's transaction can commit in between.           *)
(***************************************************************************)
\* a store that does not enforce foreign keys
insert_result_fails_no_foreign_key(user_id, test_paper_id) == FALSE

\* the INSERT into results raises IntegrityError when user_id or
\* test_paper_id names no row (ForeignKey, nullable=False)
insert_result_fails(user_id, test_paper_id) ==
    \/ UserById(user_id) = {}
    \/ PaperById(test_paper_id) = {}

\* what each route answers when the service returned None
NoneStatus(op) == IF op = "results.submit_test" THEN 404 ELSE 500

\* the first half of a submission on either route: authentication, the
\* route's checks, the reads and the scoring loop.  A request that fails in
\* this half is answered at once; one that passes holds its total and has
\* no answer yet (status 0).
submit_test_reads(s, op, tok, user_id, test_paper_id, user_answers) ==
    LET cu == get_current_user(tok)
        owner == IF op = "results.submit_test" THEN user_id ELSE cu.user.id
        req == [NoReq EXCEPT !.tok = tok, !.user_id = owner,
                             !.test_paper_id = test_paper_id,
                             !.user_answers = user_answers]
    IN  /\ inflight[s].kind = "idle"
        /\ Rows < MaxRows
        /\ \E questions_read \in Orders(QuestionsOf(test_paper_id)) :
           LET result == submit_test_and_calculate_score(
                             owner, test_paper_id, user_answers, questions_read) IN
           IF cu.status # 200
           THEN /\ last' = Respond(op, cu.status, req, 0)
                /\ UNCHANGED inflight
           ELSE IF op = "results.submit_test" /\ user_id # cu.user.id
                      /\ cu.user.role # "ADMIN"
           THEN /\ last' = Respond(op, 403, req, 0)
                /\ UNCHANGED inflight
           ELSE IF op = "test_papers.submit_test" /\ PaperById(test_paper_id) = {}
           THEN /\ last' = Respond(op, 404, req, 0)
                /\ UNCHANGED inflight
           ELSE IF ~result.ok
           THEN /\ last' = Respond(op, NoneStatus(op), req, 0)
                /\ UNCHANGED inflight
           ELSE /\ inflight' = [inflight EXCEPT ![s] =
                                   [Idle EXCEPT !.kind = "submit", !.op = op, !.req = req,
                                                !.score = result.row.final_score]]
                /\ last' = Respond(op, 0, req, 0)
        /\ UNCHANGED <<users, testPapers, questions, results, nextId, now, issued>>

\* a second half that stores the total of whichever session scored first,
\* as if the total were kept in one place for all requests
submit_test_commits_shared_total(s) ==
    LET f == inflight[s]
        first == CHOOSE x \in Sessions :
                     /\ inflight[x].kind = "submit"
                     /\ \A y \in Sessions : inflight[y].kind = "submit" => x <= y
        row == [id |-> nextId.results,
                user_id |-> f.req.user_id,
                test_paper_id |-> f.req.test_paper_id,
                final_score |-> inflight[first].score,
                user_answers |-> json_dumps(answer_data(f.req.user_answers))]
    IN  /\ f.kind = "submit"
        /\ inflight' = [inflight EXCEPT ![s] = Idle]
        /\ IF insert_result_fails(row.user_id, row.test_paper_id)
           THEN /\ last' = Respond(f.op, NoneStatus(f.op), f.req, 0)
                /\ UNCHANGED <<results, nextId>>
           ELSE /\ results' = db_add(results, row)
                /\ nextId' = [nextId EXCEPT !.results = @ + 1]
                /\ last' = Respond(f.op, 200, f.req, row.id)
        /\ UNCHANGED <<users, testPapers, questions, now, issued>>

\* the second half: db.add, db.commit.  IntegrityError is caught by
\* `except Exception`: rollback, return None.
submit_test_commits(s) ==
    LET f == inflight[s]
        row == [id |-> nextId.results,
                user_id |-> f.req.user_id,
                test_paper_id |-> f.req.test_paper_id,
                final_score |-> f.score,
                user_answers |-> json_dumps(answer_data(f.req.user_answers))]
    IN  /\ f.kind = "submit"
        /\ inflight' = [inflight EXCEPT ![s] = Idle]
        /\ IF insert_result_fails(row.user_id, row.test_paper_id)
           THEN /\ last' = Respond(f.op, NoneStatus(f.op), f.req, 0)
                /\ UNCHANGED <<results, nextId>>
           ELSE /\ results' = db_add(results, row)
                /\ nextId' = [nextId EXCEPT !.results = @ + 1]
                /\ last' = Respond(f.op, 200, f.req, row.id)
        /\ UNCHANGED <<users, testPapers, questions, now, issued>>

NextCascade ==
    \/ create_test_paper(AdminTok, "paper", 60, TRUE)
    \/ \E test_paper_id \in {1, 2} :
           create_question(AdminTok, [OneQuestion EXCEPT !.test_paper_id = test_paper_id])
    \/ \E s \in Sessions, op \in SubmitOps :
           submit_test_reads(s, op, UserTok, 1, 1, OneAnswer)
    \/ \E s \in Sessions : submit_test_commits(s)
    \/ \E test_paper_id \in {1, 2} : delete_test_paper_by_id(AdminTok, test_paper_id)
    \/ delete_question_by_id(AdminTok, 1)
    \/ delete_result_by_id(AdminTok, 1)

SpecCascade == InitGrade /\ [][NextCascade]_vars

\* C15: every Question and every Result refers to a test paper that is
\* there, and once delete_test_paper(t) has succeeded there is no test paper
\* t and no Question or Result of t, also when a submission that had read t
\* and its questions commits after the deletion.
C15_NoOrphans ==
    /\ \A q \in questions : PaperById(q.test_paper_id) # {}
    /\ \A r \in results : PaperById(r.test_paper_id) # {}
    /\ (last.op = "delete_test_paper_by_id" /\ last.status = 204) =>
          /\ PaperById(last.req.test_paper_id) = {}
          /\ QuestionsOf(last.req.test_paper_id) = {}
          /\ \A r \in results : r.test_paper_id # last.req.test_paper_id

\* a submission that had read test paper 1 committed after the test paper
\* was deleted: its INSERT was refused, while test paper 2 is still there
C15_Witness ==
    /\ last.op = "test_papers.submit_test"
    /\ last.status = 500
    /\ last.req.test_paper_id = 1
    /\ PaperById(1) = {}
    /\ PaperById(2) # {}
    /\ results = {}

(***************************************************************************)
(* Who removes Results.                                                    *)
(***************************************************************************)
\* the callers: both users and the administrator with fresh tokens, a user
\* with an expired token, a forged administrator token, no usable token
Callers == GoodToks \cup {UserTok, Forged(RootTok), Signed(NoSub)}

NextRemoval ==
    \/ create_test_paper(RootTok, "paper", 60, TRUE)
    \/ create_question(RootTok, OneQuestion)
    \/ \E user_id \in {1, 2} :
           results_submit_test(FreshTok(SeedUser(1, "a@x", "USER")), user_id, 1, OneAnswer)
    \/ test_papers_submit_test(FreshTok(SeedUser(2, "b@x", "USER")), 1, OneAnswer)
    \/ \E tok \in Callers, result_id \in {1, 2} : delete_result_by_id(tok, result_id)
    \/ \E tok \in Callers : delete_test_paper_by_id(tok, 1)
    \/ \E tok \in Callers : delete_question_by_id(tok, 1)
    \/ \E tok \in Callers : update_question_by_id(tok, 1, OtherQuestion)
    \/ \E tok \in Callers : get_result(tok, 1)
    \/ \E tok \in Callers : update_user(tok, 1, OneProfile)

SpecRemoval == InitAccess /\ [][NextRemoval]_vars

\* C16: a step that removes a Result is an answered (204) delete-result or
\* delete-test-paper request whose caller authenticates as an
\* administrator; no request of a USER or of an unauthenticated caller
\* removes one.
C16_OnlyAdminRemoves ==
    [][(\E r \in results : \A s \in results' : s.id # r.id) =>
          /\ last'.op \in RemoveOps
          /\ last'.status = 204
          /\ Requester.status = 200
          /\ Requester.user.role = "ADMIN"]_vars

\* the administrator has deleted the test paper and with it the two Results
\* that users had submitted
C16_Witness ==
    /\ last.op = "delete_test_paper_by_id"
    /\ last.status = 204
    /\ get_current_user(last.req.tok).user.role = "ADMIN"
    /\ nextId.results = 3
    /\ results = {}

(***************************************************************************)
(* Registration.  register_user checks that no account has the email, and  *)
(* then inserts and commits; another request's transaction can commit in   *)
(* between.  It has no exception handler of its own.                       *)
(***************************************************************************)
ADMIN_SECRET_KEY == "mcq_admin_secret_key_change_in_production"

\* a users table without the unique index on email
users_insert_fails_no_unique(email) == FALSE

\* db.commit() raises IntegrityError when an account already has the email
\* (unique=True)
users_insert_fails(email) == UserByEmail(email) # {}

RegisterOps == {"admin_registration", "admin_create_user"}

\* the emails that sessions in the middle of a registration are about to
\* insert
PendingEmails == {inflight[s].req.email : s \in {x \in Sessions : inflight[x].kind = "register"}}

\* the first half of POST /auth/admin/register (register_admin, tok unused)
\* and of POST /auth/admin/create-user: the dependency, the secret, and the
\* existence check of register_user.  A request that fails here is answered
\* at once; one that passes has no answer yet (status 0).
registration_reads(s, op, tok, user_data) ==
    LET cu == get_current_admin(tok)
        req == [NoReq EXCEPT !.tok = tok, !.email = user_data.email,
                             !.password = user_data.password,
                             !.admin_secret = IF op = "admin_registration"
                                              THEN user_data.admin_secret ELSE ""]
    IN  /\ inflight[s].kind = "idle"
        /\ nextId.users + Cardinality(PendingEmails \cup {user_data.email}) - 1 <= MaxUsers
        /\ IF op = "admin_create_user" /\ cu.status # 200
           THEN /\ last' = Respond(op, cu.status, req, 0)
                /\ UNCHANGED inflight
           ELSE IF op = "admin_registration" /\ user_data.admin_secret # ADMIN_SECRET_KEY
           THEN /\ last' = Respond(op, 400, req, 0)
                /\ UNCHANGED inflight
           ELSE IF UserByEmail(user_data.email) # {}
           THEN /\ last' = Respond(op, 400, req, 0)
                /\ UNCHANGED inflight
           ELSE /\ inflight' = [inflight EXCEPT ![s] =
                                   [Idle EXCEPT !.kind = "register", !.op = op, !.req = req,
                                                !.full_name = user_data.full_name,
                                                !.role = IF op = "admin_registration"
                                                         THEN "ADMIN" ELSE "USER"]]
                /\ last' = Respond(op, 0, req, 0)
        /\ UNCHANGED <<users, testPapers, questions, results, nextId, now, issued>>

\* the second half: db.add(new_user); db.commit().  The IntegrityError of
\* a taken email is caught by nobody: the session is released without a
\* commit and the request ends in a 500.
registration_commits(s) ==
    LET f == inflight[s]
        new_user == [id |-> nextId.users, email |-> f.req.email,
                     hashed_password |-> hash_password(f.req.password, "salt"),
                     role |-> f.role, full_name |-> f.full_name,
                     phone_number |-> NULL, date_of_birth |-> NULL]
    IN  /\ f.kind = "register"
        /\ inflight' = [inflight EXCEPT ![s] = Idle]
        /\ IF users_insert_fails(f.req.email)
           THEN /\ last' = Respond(f.op, 500, f.req, 0)
                /\ UNCHANGED <<users, nextId>>
           ELSE /\ users' = users \cup {new_user}
                /\ nextId' = [nextId EXCEPT !.users = @ + 1]
                /\ last' = Respond(f.op, 201, f.req, new_user.id)
        /\ UNCHANGED <<testPapers, questions, results, now, issued>>

\* AdminCreate / AdminCreateUser bodies (admin_secret is read by
\* admin_registration only)
NewAccounts ==
    {[email |-> e, password |-> "secret", full_name |-> "Cy", admin_secret |-> k] :
        e \in {"a@x", "c@x"}, k \in {ADMIN_SECRET_KEY, "guess"}}

OtherProfile == [full_name |-> "Bob", phone_number |-> "5551111111",
                 date_of_birth |-> "2000-01-01"]

NextRegister ==
    \/ \E s \in Sessions, user_data \in NewAccounts :
           registration_reads(s, "admin_registration", NoToken, user_data)
    \/ \E s \in Sessions, tok \in {AdminTok, UserTok} :
           registration_reads(s, "admin_create_user", tok,
                              [OneAccount EXCEPT !.email = "c@x"])
    \/ \E s \in Sessions : registration_commits(s)
    \/ \E user_data \in {OneProfile, OtherProfile} : update_user(UserTok, 1, user_data)
    \/ update_user(OtherTok, 2, OneProfile)

SpecRegister == InitGrade /\ [][NextRegister]_vars

UniqueEmails == \A u, v \in users : (u.email = v.email \/ u.id = v.id) => u = v

\* C17: no two accounts have the same email, before and after every step,
\* two registrations that both passed the existence check included; and a
\* registration answered for an email that an account already has adds no
\* account.
C17_UniqueEmails ==
    [][/\ UniqueEmails
       /\ UniqueEmails'
       /\ (Handles(RegisterOps) /\ last'.status # 0
             /\ UserByEmail(last'.req.email) # {}) => users' = users]_vars

\* the second of two interleaved registrations of one email has been refused
\* by the store after the first was committed
C17_Witness ==
    /\ last.op \in RegisterOps
    /\ last.status = 500
    /\ Cardinality(UserByEmail(last.req.email)) = 1
    /\ nextId.users = 5
    /\ \A s \in Sessions : inflight[s].kind = "idle"

\* the step is an account write that the store rejects for uniqueness: the
\* commit of a registration whose email an account has meanwhile been given,
\* or an authorised profile update to a phone number of another account
UniquenessViolation ==
    \/ \E s \in Sessions :
          /\ inflight[s].kind = "register"
          /\ inflight'[s].kind = "idle"
          /\ UserByEmail(inflight[s].req.email) # {}
    \/ /\ Handles({"update_user"})
       /\ last'.status \notin {401, 403, 404}
       /\ \E u \in users : /\ u.id # last'.req.user_id
                           /\ u.phone_number = last'.req.phone_number

\* C18: an account write rejected for uniqueness changes no account and is
\* answered 400 (Conflict).
C18_ConflictIs400 ==
    [][UniquenessViolation => (users' = users /\ last'.status = 400)]_vars

\* the part of C18 that the code keeps: such a write changes no account
C18_RolledBack ==
    [][UniquenessViolation => users' = users]_vars

\* the step is the insert and commit of a submission's Result that the
\* store refuses
ResultInsertRaises ==
    \E s \in Sessions :
        /\ inflight[s].kind = "submit"
        /\ inflight'[s].kind = "idle"
        /\ insert_result_fails(inflight[s].req.user_id, inflight[s].req.test_paper_id)

\* C19: when the store raises during the insert and commit of a
\* submission's Result, no Result is stored and the caller, on either
\* submission route, is answered 500 (Internal).
C19_StoreFailureIs500 ==
    [][ResultInsertRaises => (results' = results /\ last'.status = 500)]_vars

\* the part of C19 that the code keeps: no Result is stored
C19_NothingStored ==
    [][ResultInsertRaises => (results' = results /\ nextId' = nextId)]_vars

(***************************************************************************)
(* Registration routes as single steps, and where ADMIN accounts come      *)
(* from.                                                                   *)
(***************************************************************************)
\* a register_admin that takes any secret
register_admin_any_secret(full_name, email, password, admin_secret) ==
    register_user(full_name, email, password, "ADMIN")

\* register_admin: None unless admin_secret is the configured one, else
\* register_user with the ADMIN role
register_admin(full_name, email, password, admin_secret) ==
    IF admin_secret # ADMIN_SECRET_KEY THEN [ok |-> FALSE, user |-> NoUser]
    ELSE register_user(full_name, email, password, "ADMIN")

\* POST /auth/admin/register: no token is asked for
admin_registration(admin_data) ==
    LET req == [NoReq EXCEPT !.email = admin_data.email,
                             !.password = admin_data.password,
                             !.admin_secret = admin_data.admin_secret]
        new_admin == register_admin(admin_data.full_name, admin_data.email,
                                    admin_data.password, admin_data.admin_secret)
    IN  /\ nextId.users <= MaxUsers
        /\ IF ~new_admin.ok
           THEN /\ last' = Respond("admin_registration", 400, req, 0)
                /\ UNCHANGED <<users, nextId>>
           ELSE /\ users' = users \cup {new_admin.user}
                /\ nextId' = [nextId EXCEPT !.users = @ + 1]
                /\ last' = Respond("admin_registration", 201, req, new_admin.user.id)
        /\ UNCHANGED <<testPapers, questions, results, now, issued, inflight>>

\* POST /auth/register: the handler reads user_data.full_name, a field
\* UserCreate does not have; the AttributeError is raised before
\* register_user is called and the request ends in a 500
user_registration(user_data) ==
    /\ last' = Respond("user_registration", 500,
                       [NoReq EXCEPT !.email = user_data.email,
                                     !.password = user_data.password], 0)
    /\ UNCHANGED <<users, testPapers, questions, results, nextId, now, issued, inflight>>

\* the secrets sent with an admin registration: the configured one, a
\* guess, none
Secrets == {ADMIN_SECRET_KEY, "guess", ""}

\* the ids of the accounts with role ADMIN
Admins(accounts) == {u.id : u \in {v \in accounts : v.role = "ADMIN"}}

NextRoles ==
    \/ \E e \in {"c@x", "d@x", "root@x"}, k \in Secrets :
           admin_registration([email |-> e, password |-> "secret",
                               full_name |-> "Cy", admin_secret |-> k])
    \/ \E e \in {"c@x", "a@x"} :
           user_registration([email |-> e, password |-> "secret"])
    \/ \E tok \in {AdminTok, UserTok}, e \in {"c@x", "d@x"} :
           admin_create_user(tok, [OneAccount EXCEPT !.email = e])
    \/ \E tok \in {AdminTok, UserTok}, user_id \in {1, 4} :
           update_user(tok, user_id, OneProfile)
    \/ \E e \in {"c@x", "root@x"} : login(e, "secret")
    \/ tick

SpecRoles == InitGrade /\ [][NextRoles]_vars

\* C20: an account with role ADMIN appears only in an answered (201) step
\* of admin_registration that sent the configured secret, and no account's
\* role ever changes; an admin registration with any other secret adds no
\* account; self-registration and admin create-user add no account with a
\* role other than USER.
C20_AdminsBySecretOnly ==
    [][/\ Admins(users') # Admins(users) =>
             /\ last'.op = "admin_registration"
             /\ last'.status = 201
             /\ last'.req.admin_secret = ADMIN_SECRET_KEY
             /\ Admins(users') = Admins(users) \cup {last'.rid}
             /\ UserById(last'.rid) = {}
       /\ \A u \in users : \E v \in users' : v.id = u.id /\ v.role = u.role
       /\ (Handles({"admin_registration"}) /\ last'.req.admin_secret # ADMIN_SECRET_KEY)
             => (users' = users /\ last'.status = 400)
       /\ Handles({"user_registration", "admin_create_user"})
             => \A u \in users' : UserById(u.id) = {} => u.role = "USER"]_vars

\* an administrator account registered with the configured secret next to
\* the seeded one
C20_Witness ==
    /\ last.op = "admin_registration"
    /\ last.status = 201
    /\ last.req.admin_secret = ADMIN_SECRET_KEY
    /\ Cardinality(Admins(users)) = 2
    /\ last.rid \in Admins(users)
    /\ \E u \in UserById(last.rid) : u.email = last.req.email

(***************************************************************************)
(* What a profile update changes.                                          *)
(***************************************************************************)
\* v is u but for the three profile fields
SameButProfile(u, v) ==
    /\ v.id = u.id
    /\ v.role = u.role
    /\ v.email = u.email
    /\ v.hashed_password = u.hashed_password

\* C21: a step taken for a requester with the USER role changes no account's
\* role, and a profile update that is answered 200 changes only the
\* full_name, phone_number and date_of_birth of its target: the target keeps
\* id, role, email and credential hash, and every other account is as it
\* was.
C21_ProfileOnly ==
    [][/\ (now' = now /\ Requester.status = 200 /\ Requester.user.role = "USER")
             => \A u \in users : \E v \in users' : v.id = u.id /\ v.role = u.role
       /\ (Handles({"update_user"}) /\ last'.status = 200)
             => \E u \in UserById(last'.req.user_id) :
                   \E v \in users' :
                      /\ SameButProfile(u, v)
                      /\ v.phone_number = last'.req.phone_number
                      /\ users' = (users \ {u}) \cup {v}]_vars

\* a user has updated their own profile, next to an account an
\* administrator created
C21_Witness ==
    /\ last.op = "update_user"
    /\ last.status = 200
    /\ last.req.tok = UserTok
    /\ \E u \in UserById(1) : /\ u.phone_number = OneProfile.phone_number
                              /\ u.full_name = OneProfile.full_name
                              /\ u.role = "USER"
    /\ UserById(4) # {}

(***************************************************************************)
(* What a denial tells about the target.                                   *)
(***************************************************************************)
ReadOps == {"get_result", "get_user_by_id_endpoint"}

\* the request reads a target that is not the requester's own: a result
\* that is another account's or is not there, an account id other than the
\* requester's
NotOwn ==
    IF last'.op = "get_result"
    THEN \A r \in ResultById(last'.req.target) : r.user_id # Requester.user.id
    ELSE last'.req.user_id # Requester.user.id

\* C22: a USER-role requester who reads a result or an account that is not
\* their own gets the same answer whether the target is there or not: the
\* 403 that a target of another account gets, on both endpoints.
C22_DenialSameOutcome ==
    [][(/\ Handles(ReadOps)
        /\ Requester.status = 200
        /\ Requester.user.role = "USER"
        /\ NotOwn) => last'.status = 403]_vars

\* the part of C22 that the code keeps: the account read answers 403 for
\* every id other than the requester's own, whether an account has it or not
C22_AccountReadDenies ==
    [][(/\ Handles({"get_user_by_id_endpoint"})
        /\ Requester.status = 200
        /\ Requester.user.role = "USER"
        /\ NotOwn) => last'.status = 403]_vars

(***************************************************************************)
(* Authoring: what correct_option_index the stored questions hold.         *)
(***************************************************************************)
\* QuestionCreate bodies with two options: one or both flagged, none
\* flagged, and with or without an explicit correct_option_index, which the
\* schema does not range-check
AuthoringBodies ==
    {[text |-> "q", test_paper_id |-> 1,
      options |-> <<Option(c[1]), Option(c[2])>>,
      correct_option_index |-> given,
      max_score |-> Nothing] :
        c \in {<<TRUE, FALSE>>, <<FALSE, TRUE>>, <<TRUE, TRUE>>, <<FALSE, FALSE>>},
        given \in {Nothing, Some(1), Some(5), Some(-1)}}

NextAuthoring ==
    \/ create_test_paper(AdminTok, "paper", 60, TRUE)
    \/ \E question_data \in AuthoringBodies : create_question(AdminTok, question_data)
    \/ \E question_id \in {1, 2}, question_data \in {OtherQuestion} :
           update_question_by_id(AdminTok, question_id, question_data)
    \/ \E question_id \in {1, 2} : delete_question_by_id(AdminTok, question_id)

SpecAuthoring == InitGrade /\ [][NextAuthoring]_vars

\* C24: every stored Question has a correct_option_index that is an index
\* into its stored options: 0 <= index < number of options.
C24_IndexInRange ==
    \A q \in questions :
        0 <= q.correct_option_index /\ q.correct_option_index < Len(q.options)

(***************************************************************************)
(* Submissions that interleave with each other.                            *)
(***************************************************************************)
\* test paper 1 with one question, authored beforehand
InitConcurrent ==
    /\ users = SeedUsers
    /\ testPapers = {SeedPaper}
    /\ questions = {SeedQuestion(1, 2)}
    /\ results = {}
    /\ nextId = [users |-> 4, testPapers |-> 2, questions |-> 2, results |-> 1]
    /\ now = 0
    /\ issued = NoIssue
    /\ inflight = NoneInflight
    /\ last = Respond("init", 0, NoReq, 0)

\* a right answer, a wrong one, none
Payloads == {OneAnswer, Direct([k \in {"1"} |-> PyInt(1)]), Direct(EmptyMap)}

NextConcurrent ==
    \/ \E s \in Sessions, op \in SubmitOps, user_answers \in Payloads :
           submit_test_reads(s, op, UserTok, 1, 1, user_answers)
    \/ \E s \in Sessions, user_answers \in Payloads :
           submit_test_reads(s, "test_papers.submit_test", OtherTok, 2, 1, user_answers)
    \/ \E s \in Sessions : submit_test_commits(s)

SpecConcurrent == InitConcurrent /\ [][NextConcurrent]_vars

\* what the request would have stored had it run alone on the questions as
\* they are
Alone(req) ==
    {submit_test_and_calculate_score(req.user_id, req.test_paper_id,
                                     req.user_answers, questions_read).row :
        questions_read \in Orders(QuestionsOf(req.test_paper_id))}

\* C25: whatever other submissions are in flight, the commit of a submission
\* adds one Result, for its own account and test paper, whose final_score
\* and answer snapshot are those of its own payload graded alone; the
\* Results already stored and the other sessions are left as they were.
C25_NoInterference ==
    [][\A s \in Sessions :
          (inflight[s].kind = "submit" /\ inflight'[s].kind = "idle") =>
              /\ last'.status = 200
              /\ last'.req = inflight[s].req
              /\ \E r \in Alone(inflight[s].req) : results' = results \cup {r}
              /\ Cardinality(results') = Cardinality(results) + 1
              /\ \A x \in Sessions \ {s} : inflight'[x] = inflight[x]]_vars

\* a submission with the wrong answer has committed its Result, score 0,
\* while a submission of another account with the right answer, total 2,
\* is still in flight
C25_Witness ==
    /\ last.op \in SubmitOps
    /\ last.status = 200
    /\ \E r \in ResultById(last.rid) : r.final_score = 0 /\ r.user_id = last.req.user_id
    /\ \E s \in Sessions : /\ inflight[s].kind = "submit"
                           /\ inflight[s].score = 2
                           /\ inflight[s].req.user_id # last.req.user_id

(***************************************************************************)
(* The expiry an issued token carries.                                     *)
(***************************************************************************)
\* C26: the token create_access_token returned expires at issue time + ttl
\* when a ttl was supplied, a ttl of zero included, and at issue time + the
\* configured default minutes when none was.
C26_ExpiryIsIssuePlusTtl ==
    issued.token # NoToken =>
        issued.token.claims.exp =
            issued.at + (IF issued.delta.some THEN issued.delta.minutes
                         ELSE ACCESS_TOKEN_EXPIRE_MINUTES)

\* the part of C26 that the code keeps: every ttl but zero
C26_NonZeroTtl ==
    (issued.token # NoToken /\ ~(issued.delta.some /\ issued.delta.minutes = 0)) =>
        issued.token.claims.exp =
            issued.at + (IF issued.delta.some THEN issued.delta.minutes
                         ELSE ACCESS_TOKEN_EXPIRE_MINUTES)

(***************************************************************************)
(* What an update of a question leaves in the store.                       *)
(***************************************************************************)
\* the question holds the fields of a QuestionUpdate body: its text, its
\* test paper, its option texts and the index of its flagged option
HoldsFields(q, question_data) ==
    /\ q.question_text = question_data.text
    /\ q.test_paper_id = question_data.test_paper_id
    /\ q.options = [i \in 1..Len(question_data.options) |-> question_data.options[i].text]
    /\ Some(q.correct_option_index) =
           derive_correct_index(question_data.options, question_data.correct_option_index,
                                1, Nothing)

\* C27: an update of a question that is there is answered with the updated
\* question (200) and the stored question then holds the supplied fields,
\* its id and max_score and every other question unchanged; an update of an
\* unknown id is answered 404 and changes nothing.
C27_UpdatePersists ==
    [][(Handles({"update_question_by_id"}) /\ Requester.status = 200
            /\ Requester.user.role = "ADMIN") =>
          IF QuestionById(last'.req.target) = {}
          THEN last'.status = 404 /\ questions' = questions
          ELSE /\ last'.status = 200
               /\ \E q \in QuestionById(last'.req.target) :
                     \E r \in questions' :
                        /\ r.id = q.id
                        /\ r.max_score = q.max_score
                        /\ HoldsFields(r, OtherQuestion)
                        /\ questions' = (questions \ {q}) \cup {r}]_vars

\* the part of C27 that the code keeps: an unknown id is answered 404, and
\* no update changes anything
C27_UnknownIdIs404 ==
    [][(Handles({"update_question_by_id"}) /\ Requester.status = 200
            /\ Requester.user.role = "ADMIN") =>
          /\ questions' = questions
          /\ QuestionById(last'.req.target) = {} => last'.status = 404]_vars

(***************************************************************************)
(* Question reads.  Every question read goes through                       *)
(* format_question_output, and QuestionResponse requires an int            *)
(* correct_option_id: a question whose stored index is outside its options *)
(* makes the response fail (500).                                          *)
(***************************************************************************)
\* the body of a read that returns the questions qs: their reported
\* correct_option_id by question id
Reported(qs) ==
    [question_id \in {q.id : q \in qs} |->
        correct_option_id(CHOOSE q \in qs : q.id = question_id).v]

\* 200 when every question has a correct_option_id to report
ReadStatus(qs) == IF \A q \in qs : correct_option_id(q).some THEN 200 ELSE 500

\* a read by id that asks for an administrator
get_question_admin_only(tok, question_id) ==
    LET ca == get_current_admin(tok)
        req == [NoReq EXCEPT !.tok = tok, !.target = question_id]
        found == QuestionById(question_id)
        status == IF ca.status # 200 THEN ca.status
                  ELSE IF found = {} THEN 404
                  ELSE ReadStatus(found)
    IN  /\ last' = [Respond("get_question", status, req,
                            IF status = 200 THEN question_id ELSE 0)
                       EXCEPT !.correct = IF status = 200 THEN Reported(found) ELSE @]
        /\ UNCHANGED <<users, testPapers, questions, results, nextId, now, issued, inflight>>

\* GET /questions/{question_id} (any authenticated requester)
get_question(tok, question_id) ==
    LET cu == get_current_user(tok)
        req == [NoReq EXCEPT !.tok = tok, !.target = question_id]
        found == QuestionById(question_id)
        status == IF cu.status # 200 THEN cu.status
                  ELSE IF found = {} THEN 404
                  ELSE ReadStatus(found)
    IN  /\ last' = [Respond("get_question", status, req,
                            IF status = 200 THEN question_id ELSE 0)
                       EXCEPT !.correct = IF status = 200 THEN Reported(found) ELSE @]
        /\ UNCHANGED <<users, testPapers, questions, results, nextId, now, issued, inflight>>

\* GET /questions?test_paper_id= (any authenticated requester): the
\* questions of the test paper when the parameter is given and not 0, else
\* all questions
get_questions(tok, test_paper_id) ==
    LET cu == get_current_user(tok)
        req == [NoReq EXCEPT !.tok = tok,
                             !.test_paper_id = IF test_paper_id.some THEN test_paper_id.v ELSE 0]
        found == IF test_paper_id.some /\ test_paper_id.v # 0
                 THEN QuestionsOf(test_paper_id.v) ELSE questions
        status == IF cu.status # 200 THEN cu.status ELSE ReadStatus(found)
    IN  /\ last' = [Respond("get_questions", status, req, 0)
                       EXCEPT !.correct = IF status = 200 THEN Reported(found) ELSE @]
        /\ UNCHANGED <<users, testPapers, questions, results, nextId, now, issued, inflight>>

\* a question whose explicit index is outside its two options
BadQuestion == [OneQuestion EXCEPT !.correct_option_index = Some(5)]

\* answers to question 1: option indicator 0, 1 or 2
KeyedAnswers == {Direct([k \in {"1"} |-> PyInt(n)]) : n \in {0, 1, 2}}

NextAnswerKey ==
    \/ create_test_paper(AdminTok, "paper", 60, TRUE)
    \/ \E question_data \in {OneQuestion, OtherQuestion, BadQuestion} :
           create_question(AdminTok, question_data)
    \/ \E tok \in {UserTok, AdminTok, Forged(UserTok)}, question_id \in {1, 2} :
           get_question(tok, question_id)
    \/ \E tok \in {UserTok, AdminTok, Forged(UserTok)},
          test_paper_id \in {Nothing, Some(0), Some(1), Some(2)} :
           get_questions(tok, test_paper_id)
    \/ \E user_answers \in KeyedAnswers : results_submit_test(UserTok, 1, 1, user_answers)

SpecAnswerKey == InitGrade /\ [][NextAnswerKey]_vars

QuestionReadOps == {"get_question", "get_questions"}

\* the answer the submission gave to question q, when q is the only
\* question it answered
OnlyAnswer(q) ==
    LET ad == answer_data(last'.req.user_answers)
    IN  IF ad.kind = "dict" /\ DOMAIN ad.m = {StrOf(q.id)}
        THEN Some(ad.m[StrOf(q.id)].v) ELSE Nothing

\* C28: for a question whose stored index i is valid, the read API reports
\* correct_option_id i + 1, a submission that answers i is scored max_score
\* for it, and a submission that answers the reported i + 1 is scored 0.
C28_ReportedIdScoresZero ==
    [][/\ (Handles(QuestionReadOps) /\ last'.status = 200) =>
             \A q \in questions :
                 q.id \in DOMAIN last'.correct =>
                     last'.correct[q.id] = q.correct_option_index + 1
       /\ (Handles(SubmitOps) /\ last'.status = 200) =>
             \A q \in QuestionsOf(last'.req.test_paper_id) :
                 \A r \in results' \ results :
                     /\ OnlyAnswer(q) = Some(q.correct_option_index)
                            => r.final_score = q.max_score
                     /\ (correct_option_id(q).some /\ OnlyAnswer(q) = correct_option_id(q))
                            => r.final_score = 0]_vars

\* a user who answered question 1 with the correct_option_id the read API
\* reports for it (2 for stored index 1) was scored 0
C28_Witness ==
    /\ Created
    /\ \E q \in QuestionById(1) :
          /\ q.correct_option_index = 1
          /\ correct_option_id(q) = Some(2)
          /\ last.req.user_answers = Direct([k \in {"1"} |-> PyInt(2)])
    /\ LastResult.final_score = 0

\* the questions a question read asks for
Asked ==
    IF last'.op = "get_question" THEN QuestionById(last'.req.target)
    ELSE IF last'.req.test_paper_id # 0 THEN QuestionsOf(last'.req.test_paper_id)
    ELSE questions

\* C29: a question read (all questions, by test paper, by id) made with the
\* token of a USER-role account is never denied, and when every question it
\* asks for has a correct option, it is answered 200 with the
\* correct_option_id of each of them (404 only for a read by an unknown id).
C29_AnswerKeyReadableByUser ==
    [][(Handles(QuestionReadOps) /\ Requester.status = 200 /\ Requester.user.role = "USER") =>
          /\ last'.status \notin {401, 403}
          /\ (\A q \in Asked : correct_option_id(q).some) =>
                /\ last'.status = IF last'.op = "get_question" /\ Asked = {} THEN 404 ELSE 200
                /\ last'.status = 200 =>
                      /\ DOMAIN last'.correct = {q.id : q \in Asked}
                      /\ \A q \in Asked : last'.correct[q.id] = q.correct_option_index + 1]_vars

\* before any submission, a USER-role account listed the questions of test
\* paper 1 and was told the correct option of question 1
C29_Witness ==
    /\ last.op = "get_questions" /\ last.status = 200
    /\ last.req.tok = UserTok /\ last.req.test_paper_id = 1
    /\ \E cu \in {get_current_user(last.req.tok)} : cu.status = 200 /\ cu.user.role = "USER"
    /\ nextId.results = 1 /\ results = {}
    /\ \E q \in QuestionById(1) :
          1 \in DOMAIN last.correct /\ last.correct[1] = q.correct_option_index + 1

(***************************************************************************)
(* Test paper settings: an administrator creates test papers active or     *)
(* not, with a duration or none, and changes both later, while an account  *)
(* submits answers.                                                        *)
(***************************************************************************)
\* TestPaperUpdate: every field optional, None when omitted
NoSettings ==
    [name |-> [some |-> FALSE, v |-> ""],
     duration_minutes |-> [some |-> FALSE, v |-> 0],
     is_active |-> [some |-> FALSE, v |-> FALSE]]

\* update_test_paper: None when the id is unknown; else each field that is
\* not None is assigned; commit
update_test_paper(test_paper_id, test_paper_data) ==
    {[p EXCEPT !.name = IF test_paper_data.name.some
                        THEN test_paper_data.name.v ELSE @,
               !.duration_minutes = IF test_paper_data.duration_minutes.some
                                    THEN test_paper_data.duration_minutes.v ELSE @,
               !.is_active = IF test_paper_data.is_active.some
                             THEN test_paper_data.is_active.v ELSE @] :
        p \in PaperById(test_paper_id)}

\* PUT /test-papers/{test_paper_id} (admin only)
update_test_paper_by_id(tok, test_paper_id, test_paper_data) ==
    LET ca == get_current_admin(tok)
        req == [NoReq EXCEPT !.tok = tok, !.test_paper_id = test_paper_id]
        updated == update_test_paper(test_paper_id, test_paper_data)
    IN  /\ IF ca.status # 200
           THEN /\ last' = Respond("update_test_paper", ca.status, req, 0)
                /\ UNCHANGED testPapers
           ELSE IF updated = {}
           THEN /\ last' = Respond("update_test_paper", 404, req, 0)
                /\ UNCHANGED testPapers
           ELSE /\ testPapers' = (testPapers \ PaperById(test_paper_id)) \cup updated
                /\ last' = Respond("update_test_paper", 200, req, test_paper_id)
        /\ UNCHANGED <<users, questions, results, nextId, now, issued, inflight>>

Settings ==
    {[NoSettings EXCEPT !.is_active = [some |-> TRUE, v |-> FALSE]],
     [NoSettings EXCEPT !.is_active = [some |-> TRUE, v |-> TRUE]],
     [NoSettings EXCEPT !.duration_minutes = [some |-> TRUE, v |-> 0]],
     [NoSettings EXCEPT !.name = [some |-> TRUE, v |-> "closed"]]}

NextSettings ==
    \/ \E duration_minutes \in {0, 60}, is_active \in BOOLEAN :
           create_test_paper(AdminTok, "paper", duration_minutes, is_active)
    \/ \E tok \in {AdminTok, UserTok}, test_paper_id \in {1, 2}, test_paper_data \in Settings :
           update_test_paper_by_id(tok, test_paper_id, test_paper_data)
    \/ \E question_data \in {OneQuestion, OtherQuestion} :
           create_question(AdminTok, question_data)
    \/ \E test_paper_id \in {1, 2}, user_answers \in KeyedAnswers :
           results_submit_test(UserTok, 1, test_paper_id, user_answers)

SpecSettings == InitGrade /\ [][NextSettings]_vars

\* C30: a submission to a test paper that has questions is answered 200 and
\* records one Result whose score and snapshot are computed from the
\* request and the questions alone, whatever the test paper's is_active and
\* duration_minutes are; it equals, id apart, every Result stored before
\* for the same account, test paper and answers to question 1.
C30_InactiveGradedAlike ==
    [][Handles(SubmitOps) =>
          \A p \in PaperById(last'.req.test_paper_id) :
              QuestionsOf(p.id) # {} =>
                  /\ last'.status = 200
                  /\ \E questions_read \in Orders(QuestionsOf(p.id)) :
                        results' = results \cup
                            {[id |-> nextId.results,
                              user_id |-> last'.req.user_id,
                              test_paper_id |-> p.id,
                              final_score |->
                                  total_score(questions_read,
                                              answer_data(last'.req.user_answers)),
                              user_answers |->
                                  json_dumps(answer_data(last'.req.user_answers))]}
                  /\ \A r \in results' \ results : \A old \in results :
                        (/\ old.user_id = r.user_id
                         /\ old.test_paper_id = r.test_paper_id
                         /\ old.user_answers = r.user_answers
                         /\ QuestionById(1) \subseteq QuestionsOf(p.id))
                            => old.final_score = r.final_score]_vars

\* a submission to an inactive test paper of duration 0 was recorded with
\* the score of its right answer, equal to a Result recorded before
C30_Witness ==
    /\ Created
    /\ \E p \in PaperById(last.req.test_paper_id) :
          ~p.is_active /\ p.duration_minutes = 0
    /\ LastResult.final_score > 0
    /\ \E old \in results :
          /\ old.id < LastResult.id
          /\ old.user_answers = LastResult.user_answers
          /\ old.final_score = LastResult.final_score

====
